---- MODULE Spec2Model ----
(***************************************************************************)
(* Model of the geometry-3d kernel: Vector, Matrix, Segment, Polygon,      *)
(* Triangle and Mesh.                                                      *)
(*                                                                         *)
(* Numbers are exact rationals <<n, d>> (d > 0, lowest terms); the three   *)
(* non-finite IEEE values a division by zero produces are <<1, 0>>         *)
(* (+Infinity), <<-1, 0>> (-Infinity) and <<0, 0>> (NaN).  Rounding error  *)
(* and the sign of zero are not modelled.                                  *)
(*                                                                         *)
(* The library is instantiated with the tolerance EPSILON (the `epsilon`   *)
(* parameter of src/index.js); the model runs it with epsilon = 2 so that  *)
(* integer coordinates can differ by less than, exactly, and more than     *)
(* the tolerance.                                                          *)
(***************************************************************************)
EXTENDS Integers, Sequences, FiniteSets, TLC

VARIABLES pc, mesh, remaining, selected, result, contiguous, meshCut, plane,
          args, tri, cutRes, other, eqRes, segG, segH, isect,
          iterations, coll, triIsect, vecV, vecW, vecEq,
          polyThis, polyOther, mode, clipped, operRes,
          queryPoint, polyEq, contained

vars == <<pc, mesh, remaining, selected, result, contiguous, meshCut, plane,
          args, tri, cutRes, other, eqRes, segG, segH, isect,
          iterations, coll, triIsect, vecV, vecW, vecEq,
          polyThis, polyOther, mode, clipped, operRes,
          queryPoint, polyEq, contained>>

meshVars == <<mesh, remaining, selected, result, contiguous, meshCut>>
triVars == <<args, tri, cutRes, other, eqRes>>
\* plane is the cut plane of Mesh.cut and of Triangle.cut
segVars == <<segG, segH, isect>>
\* iterations counts the iterations of the loop of Mesh.split; coll is the
\* result of Segment.collinear, triIsect that of Triangle.intersect.
vecVars == <<vecV, vecW, vecEq>>
\* clipped is what the clipping library returned to the boolean operation.
polyVars == <<polyThis, polyOther, mode, clipped, operRes>>
\* queryPoint is the argument of Polygon.contains, contained its result and
\* polyEq the result of Polygon.equals.
queryVars == <<queryPoint, polyEq, contained>>

\* No object: JavaScript null / undefined where an object is expected, and
\* the value of a variable that the running operation has not set.
Null == [null |-> TRUE]

\* undefined where a number is expected.
Undefined == <<>>

(***************************************************************************)
(* Bounds                                                                  *)
(***************************************************************************)
\* Largest number of faces of a mesh.
MaxFaces == 3

\* Number of points of PointPool that triangles are built from.
NumPoints == 5

\* Largest coordinate of the end points of segments.
MaxCoord == 3

(***************************************************************************)
(* Numbers                                                                 *)
(***************************************************************************)
Abs(i) == IF i < 0 THEN -i ELSE i

Sgn(i) == IF i < 0 THEN -1 ELSE IF i > 0 THEN 1 ELSE 0

RECURSIVE GCD(_, _)
GCD(a, b) == IF b = 0 THEN a ELSE GCD(b, a % b)

\* The number n/d; d = 0 gives +Infinity, -Infinity or NaN by the sign of n.
Q(n, d) ==
    IF d = 0 THEN <<Sgn(n), 0>>
    ELSE LET g == GCD(Abs(n), Abs(d))
         IN  <<(Sgn(d) * n) \div g, Abs(d) \div g>>

R(i) == <<i, 1>>

NaN == <<0, 0>>

IsNaN(a) == a = NaN

IsFinite(a) == a[2] > 0

Add(a, b) ==
    IF IsNaN(a) \/ IsNaN(b) THEN NaN
    ELSE IF a[2] = 0 /\ b[2] = 0 THEN (IF a[1] = b[1] THEN a ELSE NaN)
    ELSE Q(a[1] * b[2] + b[1] * a[2], a[2] * b[2])

Neg(a) == <<-a[1], a[2]>>

Sub(a, b) == Add(a, Neg(b))

Mul(a, b) == Q(a[1] * b[1], a[2] * b[2])

Div(a, b) == Q(a[1] * b[2], a[2] * b[1])

\* a < b; every comparison with NaN is false.
Lt(a, b) ==
    IF IsNaN(a) \/ IsNaN(b) THEN FALSE
    ELSE IF a[2] = 0 /\ b[2] = 0 THEN a[1] < b[1]
    ELSE a[1] * b[2] < b[1] * a[2]

Gt(a, b) == Lt(b, a)

Le(a, b) == ~IsNaN(a) /\ ~IsNaN(b) /\ ~Lt(b, a)

Ge(a, b) == Le(b, a)

MathAbs(a) == <<Abs(a[1]), a[2]>>

MathSign(a) == IF IsNaN(a) THEN NaN ELSE R(Sgn(a[1]))

MathMax(a, b) == IF IsNaN(a) \/ IsNaN(b) THEN NaN ELSE IF Lt(a, b) THEN b ELSE a

MathMin(a, b) == IF IsNaN(a) \/ IsNaN(b) THEN NaN ELSE IF Lt(b, a) THEN b ELSE a

\* The tolerance the library is instantiated with.
EPSILON == 2

Eps == R(EPSILON)

(***************************************************************************)
(* Vector                                                                  *)
(***************************************************************************)
Vector(x, y, z) == [x |-> x, y |-> y, z |-> z]

\* new Vector(x, y, z) for integer coordinates.
Vec(x, y, z) == Vector(R(x), R(y), R(z))

VAdd(v, w) == Vector(Add(v.x, w.x), Add(v.y, w.y), Add(v.z, w.z))

VSubtract(v, w) == Vector(Sub(v.x, w.x), Sub(v.y, w.y), Sub(v.z, w.z))

VScale(v, factor) == Vector(Mul(factor, v.x), Mul(factor, v.y), Mul(factor, v.z))

\* Vector.equals with the tolerance itself counted as equal.
VEqualsInclusive(v, w) ==
    /\ Le(MathAbs(Sub(v.x, w.x)), Eps)
    /\ Le(MathAbs(Sub(v.y, w.y)), Eps)
    /\ Le(MathAbs(Sub(v.z, w.z)), Eps)

\* Vector.equals(v)
VEquals(v, w) ==
    /\ Lt(MathAbs(Sub(v.x, w.x)), Eps)
    /\ Lt(MathAbs(Sub(v.y, w.y)), Eps)
    /\ Lt(MathAbs(Sub(v.z, w.z)), Eps)

Cross(v1, v2) ==
    Vector(Sub(Mul(v1.y, v2.z), Mul(v1.z, v2.y)),
           Add(Neg(Mul(v1.x, v2.z)), Mul(v1.z, v2.x)),
           Sub(Mul(v1.x, v2.y), Mul(v1.y, v2.x)))

Dot(v1, v2) == Add(Add(Mul(v1.x, v2.x), Mul(v1.y, v2.y)), Mul(v1.z, v2.z))

VFinite(v) == IsFinite(v.x) /\ IsFinite(v.y) /\ IsFinite(v.z)

(***************************************************************************)
(* Matrix                                                                  *)
(***************************************************************************)
fromColumns(c1, c2, c3) ==
    <<c1.x, c2.x, c3.x,
      c1.y, c2.y, c3.y,
      c1.z, c2.z, c3.z>>

\* The source indexes from 0: this[k] is m[k + 1].
determinant(m) ==
    Sub(Sub(Sub(Add(Add(Mul(Mul(m[1], m[5]), m[9]),
                        Mul(Mul(m[2], m[6]), m[7])),
                    Mul(Mul(m[3], m[4]), m[8])),
                Mul(Mul(m[3], m[5]), m[7])),
            Mul(Mul(m[2], m[4]), m[9])),
        Mul(Mul(m[1], m[6]), m[8]))

(***************************************************************************)
(* util                                                                    *)
(***************************************************************************)
sign(x) == IF Lt(MathAbs(x), Eps) THEN R(0) ELSE MathSign(x)

\* Sum of f[1..n].
RECURSIVE SumTo(_, _)
SumTo(f, n) == IF n = 0 THEN R(0) ELSE Add(SumTo(f, n - 1), f[n])

\* winding(vertices): +1 clockwise, -1 counter-clockwise, 0 collinear, in
\* the x/y coordinates of the vertices; undefined below 3 vertices.
winding(vertices) ==
    IF Len(vertices) < 3 THEN Undefined
    ELSE LET n == Len(vertices)
             term == [i \in 1..n |->
                        LET v1 == vertices[i]
                            v2 == vertices[(i % n) + 1]
                        IN  Mul(Sub(v2.x, v1.x), Add(v2.y, v1.y))]
         IN  sign(SumTo(term, n))

Reverse(s) == [i \in 1..Len(s) |-> s[Len(s) + 1 - i]]

(***************************************************************************)
(* Polygon and Triangle construction                                       *)
(***************************************************************************)
\* new Polygon(vertices): the vertices, reversed when winding is +1.
Polygon(vertices) ==
    IF winding(vertices) = R(1) THEN Reverse(vertices) ELSE vertices

\* new Triangle(a, b, c): b and c are swapped when det[a b c] < 0, then the
\* Polygon constructor runs on the three vertices.
Triangle(a, b, c) ==
    IF Lt(determinant(fromColumns(a, b, c)), R(0))
    THEN Polygon(<<a, c, b>>)
    ELSE Polygon(<<a, b, c>>)

(***************************************************************************)
(* Triangle                                                                *)
(***************************************************************************)
\* The error a property read of undefined raises.
TypeError == [throws |-> "TypeError"]

\* Triangle.equals without the test of the length of other.
equalsNoLength(this, that) ==
    \A i \in 1..Len(this) : \E j \in 1..Len(that) : VEquals(this[i], that[j])

\* Triangle.equals(other)
equals(this, that) ==
    /\ Len(that) = 3
    /\ \A i \in 1..Len(this) : \E j \in 1..Len(that) : VEquals(this[i], that[j])

\* linePlaneIntersect of Triangle.cut
linePlaneIntersect(normal, offset, P1, P2) ==
    LET a == Div(Sub(offset, Dot(normal, P1)), Sub(Dot(normal, P2), Dot(normal, P1)))
    IN  VAdd(P1, VScale(VSubtract(P2, P1), a))

\* forEach of Triangle.cut: the vertices pushed to `above`
AboveOf(this, distances) ==
    LET idx == SelectSeq([i \in 1..Len(this) |-> i],
                         LAMBDA i : ~Lt(MathAbs(distances[i]), Eps) /\ Gt(distances[i], Eps))
    IN  [k \in 1..Len(idx) |-> this[idx[k]]]

\* forEach of Triangle.cut: the vertices pushed to `below`
BelowOf(this, distances) ==
    LET idx == SelectSeq([i \in 1..Len(this) |-> i],
                         LAMBDA i : ~Lt(MathAbs(distances[i]), Eps) /\ ~Gt(distances[i], Eps))
    IN  [k \in 1..Len(idx) |-> this[idx[k]]]

\* forEach of Triangle.cut: `on` is the last vertex within EPSILON of the
\* plane, Null when there is none.
OnOf(this, distances) ==
    LET idx == {i \in 1..Len(this) : Lt(MathAbs(distances[i]), Eps)}
    IN  IF idx = {} THEN Null ELSE this[CHOOSE i \in idx : \A j \in idx : j <= i]

\* The two-triangle branch of Triangle.cut.
CutOn(normal, offset, above, below, on) ==
    IF Len(above) = 0 \/ Len(below) = 0 THEN TypeError
    ELSE LET P == linePlaneIntersect(normal, offset, below[1], above[1])
         IN  [above |-> Triangle(above[1], P, on), below |-> Triangle(P, below[1], on)]

\* new (vs.length > 3 ? Polygon : Triangle)(vs)
PolygonOrTriangle(vs) ==
    IF Len(vs) > 3 THEN Polygon(vs) ELSE Triangle(vs[1], vs[2], vs[3])

\* The triangle-and-trapezoid branch of Triangle.cut.
CutAcross(normal, offset, above, below) ==
    LET triangular == IF Len(above) = 1 THEN above ELSE below
        trapezoidal == IF Len(above) = 2 THEN above ELSE below
        intersections ==
            Reverse([k \in 1..Len(trapezoidal) |->
                        linePlaneIntersect(normal, offset, trapezoidal[k], triangular[1])])
    IN  [above |-> PolygonOrTriangle(above \o intersections),
         below |-> PolygonOrTriangle(below \o intersections)]

\* Triangle.cut with the two whole-triangle results exchanged: a triangle on
\* the positive side is returned as `below`.
cutSwapped(this, normal, offset) ==
    LET distances == [i \in 1..Len(this) |-> Sub(Dot(normal, this[i]), offset)]
    IN  IF \A i \in 1..Len(distances) : Lt(MathAbs(distances[i]), Eps)
        THEN [above |-> this, below |-> this]
        ELSE IF \A i \in 1..Len(distances) : Gt(distances[i], Neg(Eps))
        THEN [above |-> Polygon(<<>>), below |-> this]
        ELSE IF \A i \in 1..Len(distances) : Lt(distances[i], Eps)
        THEN [above |-> this, below |-> Polygon(<<>>)]
        ELSE IF (\E i \in 1..Len(distances) : Gt(distances[i], Neg(Eps)))
                /\ (\E i \in 1..Len(distances) : Lt(distances[i], Eps))
        THEN LET above == AboveOf(this, distances)
                 below == BelowOf(this, distances)
                 on == OnOf(this, distances)
             IN  IF on # Null
                 THEN CutOn(normal, offset, above, below, on)
                 ELSE CutAcross(normal, offset, above, below)
        ELSE Null

\* Triangle.cut(normal, offset)
cut(this, normal, offset) ==
    LET distances == [i \in 1..Len(this) |-> Sub(Dot(normal, this[i]), offset)]
    IN  IF \A i \in 1..Len(distances) : Lt(MathAbs(distances[i]), Eps)
        THEN [above |-> this, below |-> this]
        ELSE IF \A i \in 1..Len(distances) : Gt(distances[i], Neg(Eps))
        THEN [above |-> this, below |-> Polygon(<<>>)]
        ELSE IF \A i \in 1..Len(distances) : Lt(distances[i], Eps)
        THEN [above |-> Polygon(<<>>), below |-> this]
        ELSE IF (\E i \in 1..Len(distances) : Gt(distances[i], Neg(Eps)))
                /\ (\E i \in 1..Len(distances) : Lt(distances[i], Eps))
        THEN LET above == AboveOf(this, distances)
                 below == BelowOf(this, distances)
                 on == OnOf(this, distances)
             IN  IF on # Null
                 THEN CutOn(normal, offset, above, below, on)
                 ELSE CutAcross(normal, offset, above, below)
        ELSE Null

isEmpty(p) == Len(p) = 0

\* Polygon.tesselate() and Triangle.tesselate()
tesselate(p) == <<p>>

(***************************************************************************)
(* Segment                                                                 *)
(***************************************************************************)
lengthSquared(v) == Add(Add(Mul(v.x, v.x), Mul(v.y, v.y)), Mul(v.z, v.z))

\* lineIntersect(a1, b1, a2, b2): Null, the point of intersection, or
\* { a: a1, b: b1 } when the lines are found collinear.
lineIntersect(a1, b1, a2, b2) ==
    LET direction1 == VSubtract(b1, a1)
        direction2 == VSubtract(b2, a2)
        cross == Cross(direction1, direction2)
        crossLengthSquared == lengthSquared(cross)
    IN  IF Lt(crossLengthSquared, Eps)
        THEN LET t == Div(Sub(a2.x, a1.x), direction1.x)
             IN  IF /\ Lt(MathAbs(Sub(Sub(a2.y, a1.y), Mul(t, direction1.y))), Eps)
                    /\ Lt(MathAbs(Sub(Sub(a2.z, a1.z), Mul(t, direction1.z))), Eps)
                 THEN [a |-> a1, b |-> b1]
                 ELSE Null
        ELSE LET t1 == Div(determinant(fromColumns(VSubtract(a2, a1), direction2, cross)),
                           crossLengthSquared)
                 t2 == Div(determinant(fromColumns(VSubtract(a2, a1), direction1, cross)),
                           crossLengthSquared)
                 p1 == VAdd(a1, VScale(direction1, t1))
                 p2 == VAdd(a2, VScale(direction2, t2))
             IN  IF VEquals(p1, p2) THEN p1 ELSE Null

\* new Segment(a, b)
Segment(a, b) == [a |-> a, b |-> b]

\* Segment.direction()
direction(this) == VSubtract(this.b, this.a)

\* isect instanceof Vector
IsVector(v) == DOMAIN v = {"x", "y", "z"}

IsSegment(v) == DOMAIN v = {"a", "b"}

\* Segment.intersect(other)
intersect(this, that) ==
    LET isect0 == lineIntersect(this.a, this.b, that.a, that.b)
    IN  IF isect0 = Null THEN Null
        ELSE IF IsVector(isect0)
        THEN LET v == VSubtract(isect0, this.a)
                 w == VSubtract(isect0, that.a)
                 s == Div(v.x, direction(this).x)
                 t == Div(w.x, direction(that).x)
             IN  IF Lt(s, R(0)) \/ Gt(s, R(1)) \/ Lt(t, R(0)) \/ Gt(t, R(1))
                 THEN Null
                 ELSE isect0
        ELSE LET u1 == Div(Sub(that.a.x, this.a.x), direction(this).x)
                 u2 == Div(Sub(that.b.x, this.a.x), direction(this).x)
                 t1 == IF Lt(u2, u1) THEN u2 ELSE u1
                 t2 == IF Lt(u2, u1) THEN u1 ELSE u2
             IN  IF (Le(R(0), t1) /\ Le(t1, R(1))) \/ (Le(R(0), t2) /\ Le(t2, R(1)))
                 THEN Segment(VAdd(this.a, VScale(direction(this), MathMax(R(0), t1))),
                              VAdd(this.a, VScale(direction(this), MathMin(R(1), t2))))
                 ELSE Null

\* Segment.collinear(other): one end point of other against this segment;
\* t is its parameter along this segment, and the result is whether the
\* method gives up (returns null) on it.
OffLine(this, point, t) ==
    \/ Ge(Sub(Sub(point.y, this.a.y), Mul(t, direction(this).y)), Eps)
    \/ Ge(Sub(Sub(point.z, this.a.z), Mul(t, direction(this).z)), Eps)

\* Segment.collinear(other)
collinear(this, that) ==
    LET t1 == Div(Sub(that.a.x, this.a.x), direction(this).x)
        t2 == Div(Sub(that.b.x, this.a.x), direction(this).x)
    IN  IF OffLine(this, that.a, t1) THEN Null
        ELSE IF OffLine(this, that.b, t2) THEN Null
        ELSE [t1 |-> t1, t2 |-> t2]

(***************************************************************************)
(* Polygon: boolean operations                                             *)
(*                                                                         *)
(* The operands are projected onto two of the three axes and handed to the *)
(* clipping library.  What the library returns is an input of the model:   *)
(* a sequence of polygons in GeoJSON form, each a sequence of rings (the   *)
(* exterior first, then the holes), each ring a closed sequence of         *)
(* <<x, y>> pairs, exterior rings counter-clockwise and holes clockwise.   *)
(***************************************************************************)
\* The errors the boolean operations raise.
NotCoplanarError == [throws |-> "Cannot perform the operation on polygons that are not co-planar"]

HolesError == [throws |-> "Expected a polygon with at most one hole"]

\* Polygon.normal: Newell's method; undefined below 3 vertices.
Normal(this) ==
    IF Len(this) < 3 THEN Null
    ELSE LET n == Len(this)
             xs == [i \in 1..n |-> LET u == this[i]
                                       v == this[(i % n) + 1]
                                   IN  Mul(Sub(u.y, v.y), Add(u.z, v.z))]
             ys == [i \in 1..n |-> LET u == this[i]
                                       v == this[(i % n) + 1]
                                   IN  Mul(Sub(u.z, v.z), Add(u.x, v.x))]
             zs == [i \in 1..n |-> LET u == this[i]
                                       v == this[(i % n) + 1]
                                   IN  Mul(Sub(u.x, v.x), Add(u.y, v.y))]
         IN  Vector(SumTo(xs, n), SumTo(ys, n), SumTo(zs, n))

\* eq(P, Q) of oper: equal x and y within the tolerance.
eq(p, q) ==
    /\ Lt(MathAbs(Sub(p.x, q.x)), Eps)
    /\ Lt(MathAbs(Sub(p.y, q.y)), Eps)

\* The axis on which the normal is largest: [...'xyz'].reduce(...).
Axis(n) ==
    LET first == IF Ge(MathAbs(n.y), MathAbs(n.x)) THEN "y" ELSE "x"
    IN  IF Ge(MathAbs(n.z), MathAbs(n[first])) THEN "z" ELSE first

\* [ dim1, dim2 ]: the two other axes, in the order x, y, z.
Dims(axis) ==
    IF axis = "x" THEN <<"y", "z">>
    ELSE IF axis = "y" THEN <<"x", "z">>
    ELSE <<"x", "y">>

\* The co-planarity test of oper without the test of the offset.
NotCoplanarParallelOnly(poly1, poly2, n1, n2) ==
    LET axis == Axis(n1)
    IN  ~VEquals(n1, VScale(n2, Div(n1[axis], n2[axis])))

\* The co-planarity test of oper: TRUE when oper throws.  n1 and n2 are the
\* normals of the operands.
NotCoplanar(poly1, poly2, n1, n2) ==
    LET axis == Axis(n1)
    IN  \/ ~VEquals(n1, VScale(n2, Div(n1[axis], n2[axis])))
        \/ sign(Sub(Dot(n1, poly1[1]), Dot(n1, poly2[1]))) # R(0)

\* One ring of the library's result as { x, y } objects, the closing vertex
\* removed when it equals the first.
ToRing(coords) ==
    LET ring == [i \in 1..Len(coords) |-> [x |-> R(coords[i][1]), y |-> R(coords[i][2])]]
    IN  IF eq(ring[1], ring[Len(ring)]) THEN SubSeq(ring, 1, Len(ring) - 1) ELSE ring

\* Array.prototype.flat()
RECURSIVE flat(_)
flat(ss) == IF Len(ss) = 0 THEN <<>> ELSE Head(ss) \o flat(Tail(ss))

\* The rings of all polygons of the library's result, in one list.
Rings(clip) ==
    flat([p \in 1..Len(clip) |-> [r \in 1..Len(clip[p]) |-> ToRing(clip[p][r])]])

\* The hole count test of oper, with the number of rings in place of the
\* number of clockwise rings.
TooManyHolesByLength(rings) ==
    Len(rings) > 2

\* The hole count test of oper: TRUE when oper throws.
TooManyHoles(rings) ==
    /\ Len(rings) > 2
    /\ Cardinality({i \in 1..Len(rings) : winding(rings[i]) = R(1)}) > 1

\* Math.min(...values) and Math.max(...values) of a non-empty list.
RECURSIVE MinOf(_)
MinOf(values) ==
    IF Len(values) = 1 THEN values[1] ELSE MathMin(values[1], MinOf(Tail(values)))

RECURSIVE MaxOf(_)
MaxOf(values) ==
    IF Len(values) = 1 THEN values[1] ELSE MathMax(values[1], MaxOf(Tail(values)))

\* The bisection line: halfway between the lowest and the highest point of
\* the hole.
Bisection(hole) ==
    LET ys == [i \in 1..Len(hole) |-> hole[i].y]
    IN  Div(Add(MinOf(ys), MaxOf(ys)), R(2))

\* x where the edge from p1 to p2 meets the horizontal line at y.
CrossingX(p1, p2, y) ==
    LET alpha == Div(Sub(y, p1.y), Sub(p2.y, p1.y))
    IN  Add(p1.x, Mul(alpha, Sub(p2.x, p1.x)))

\* The loop over the edges of the hole, from edge i on: the left-most upward
\* crossing C1 and the right-most downward crossing C2 with the indices
\* (from 0) of their edges.
RECURSIVE HoleCrossings(_, _, _, _)
HoleCrossings(hole, y, i, st) ==
    IF i >= Len(hole) THEN st
    ELSE LET Q1 == hole[i + 1]
             Q2 == hole[((i + 1) % Len(hole)) + 1]
             x == CrossingX(Q1, Q2, y)
         IN  HoleCrossings(hole, y, i + 1,
                IF Le(Q1.y, y) /\ Gt(Q2.y, y)
                THEN IF st.C1 = Null \/ Lt(x, st.C1.x)
                     THEN [st EXCEPT !.C1 = [x |-> x, y |-> y], !.indexC1 = i]
                     ELSE st
                ELSE IF Ge(Q1.y, y) /\ Lt(Q2.y, y)
                THEN IF st.C2 = Null \/ Gt(x, st.C2.x)
                     THEN [st EXCEPT !.C2 = [x |-> x, y |-> y], !.indexC2 = i]
                     ELSE st
                ELSE st)

\* The loop over the edges of the exterior, from edge i on: S2 is the upward
\* crossing nearest to C2 and S1 the downward crossing nearest to C1.
RECURSIVE ExteriorCrossings(_, _, _, _, _, _)
ExteriorCrossings(exterior, y, C1, C2, i, st) ==
    IF i >= Len(exterior) THEN st
    ELSE LET P1 == exterior[i + 1]
             P2 == exterior[((i + 1) % Len(exterior)) + 1]
             x == CrossingX(P1, P2, y)
         IN  ExteriorCrossings(exterior, y, C1, C2, i + 1,
                IF Le(P1.y, y) /\ Gt(P2.y, y)
                THEN IF st.S2 = Null
                        \/ Lt(MathAbs(Sub(x, C2.x)), MathAbs(Sub(st.S2.x, C2.x)))
                     THEN [st EXCEPT !.S2 = [x |-> x, y |-> y], !.indexS2 = i]
                     ELSE st
                ELSE IF Ge(P1.y, y) /\ Lt(P2.y, y)
                THEN IF st.S1 = Null
                        \/ Lt(MathAbs(Sub(x, C1.x)), MathAbs(Sub(st.S1.x, C1.x)))
                     THEN [st EXCEPT !.S1 = [x |-> x, y |-> y], !.indexS1 = i]
                     ELSE st
                ELSE st)

\* The break points found by the two loops of hole splitting.
BreakPointsOf(y, c, s) ==
    [y |-> y, C1 |-> c.C1, C2 |-> c.C2, indexC1 |-> c.indexC1, indexC2 |-> c.indexC2,
     S1 |-> s.S1, S2 |-> s.S2, indexS1 |-> s.indexS1, indexS2 |-> s.indexS2]

\* The second loop of hole splitting, after the crossings c of the hole.
BreakPointsFrom(exterior, y, c) ==
    BreakPointsOf(y, c,
                  ExteriorCrossings(exterior, y, c.C1, c.C2, 0,
                     [S1 |-> Null, indexS1 |-> Null, S2 |-> Null, indexS2 |-> Null]))

\* The two loops of hole splitting for the bisection line at y.
BreakPointsAt(exterior, hole, y) ==
    BreakPointsFrom(exterior, y,
                    HoleCrossings(hole, y, 0,
                       [C1 |-> Null, indexC1 |-> Null, C2 |-> Null, indexC2 |-> Null]))

\* The break points of hole splitting: C1, C2 on the hole and S1, S2 on the
\* exterior, with the indices of their edges.
BreakPoints(exterior, hole) == BreakPointsAt(exterior, hole, Bisection(hole))

\* Trace where the vertex at index `upto` goes to both result polygons.
TraceBoth(ring, from, upto) ==
    LET n == Len(ring)
        m == IF upto - from > n THEN n ELSE upto - from
    IN  [top |-> [k \in 1..m |-> ring[((from + k) % n) + 1]],
         bottom |-> [k \in 1..(n - m + 1) |-> ring[((from + m + k - 1) % n) + 1]]]

\* Tracing a ring: the loop `for (i = from + 1; i < from + 1 + n; i++)` that
\* pushes ring[i % n] to top while i <= upto and to bottom after.
Trace(ring, from, upto) ==
    LET n == Len(ring)
        m == IF upto - from > n THEN n ELSE upto - from
    IN  [top |-> [k \in 1..m |-> ring[((from + k) % n) + 1]],
         bottom |-> [k \in 1..(n - m) |-> ring[((from + m + k) % n) + 1]]]

\* if (!eq(point, poly.at(-1))) poly.push(point)
PushUnlessEq(poly, point) ==
    IF eq(point, poly[Len(poly)]) THEN poly ELSE Append(poly, point)

\* The two polygons of hole splitting from the traced halves ext of the
\* exterior and hol of the hole.
Joined(bp, ext, hol) ==
    << PushUnlessEq(PushUnlessEq(
          PushUnlessEq(PushUnlessEq(ext.top, bp.S1), bp.C1) \o hol.top, bp.C2), bp.S2),
       PushUnlessEq(PushUnlessEq(
          PushUnlessEq(PushUnlessEq(ext.bottom, bp.S2), bp.C2) \o hol.bottom, bp.C1), bp.S1) >>

\* Hole splitting from the break points bp on.
SplitAt(exterior, hole, bp) ==
    Joined(bp,
           Trace(exterior, bp.indexS2,
                 IF bp.indexS1 < bp.indexS2 THEN bp.indexS1 + Len(exterior) ELSE bp.indexS1),
           Trace(hole, bp.indexC1,
                 IF bp.indexC2 < bp.indexC1 THEN bp.indexC2 + Len(hole) ELSE bp.indexC2))

\* The hole splitting of oper: the exterior and its hole become two polygons
\* without hole.
SplitHole(exterior, hole) == SplitAt(exterior, hole, BreakPoints(exterior, hole))

\* new Vector({ [dim1]: x, [dim2]: y, [axis]: -(normal[dim1] * x +
\* normal[dim2] * y + d) / normal[axis] })
Lift(p, n, d, axis) ==
    LET dim1 == Dims(axis)[1]
        dim2 == Dims(axis)[2]
        h == Div(Neg(Add(Add(Mul(n[dim1], p.x), Mul(n[dim2], p.y)), d)), n[axis])
        At(dim) == IF dim = dim1 THEN p.x ELSE IF dim = dim2 THEN p.y ELSE h
    IN  Vector(At("x"), At("y"), At("z"))

\* The last step of oper: every vertex of every polygon goes back to the
\* plane n * X + d = 0.
LiftAll(polygons, n, d) ==
    [i \in 1..Len(polygons) |->
       [j \in 1..Len(polygons[i]) |-> Lift(polygons[i][j], n, d, Axis(n))]]

\* oper from the rings of the library's result on.
OperOnRings(poly1, n1, rings) ==
    IF TooManyHoles(rings) THEN HolesError
    ELSE [returns |->
            LiftAll(IF Len(rings) > 1 /\ winding(rings[2]) = R(1)
                    THEN SplitHole(rings[1], rings[2])
                    ELSE rings,
                    n1, Neg(Dot(n1, poly1[1])))]

\* oper(poly1, poly2, mode), from the result `clip` of the clipping library
\* on; n1 and n2 are poly1.normal and poly2.normal.  The value is the error
\* thrown or the list of polygons returned.
oper(poly1, poly2, n1, n2, clip) ==
    IF n1 = Null \/ n2 = Null THEN TypeError
    ELSE IF NotCoplanar(poly1, poly2, n1, n2) THEN NotCoplanarError
    ELSE OperOnRings(poly1, n1, Rings(clip))

\* .map(poly => new Polygon(poly)) on what oper returns; an error oper
\* throws is passed on.
MapToPolygons(res) ==
    IF "throws" \in DOMAIN res THEN res
    ELSE [returns |-> [i \in 1..Len(res.returns) |-> Polygon(res.returns[i])]]

\* Polygon.intersect(other), Polygon.subtract(other) and Polygon.add(other):
\* oper(this, other, mode).map(poly => new Polygon(poly))
booleanOperation(this, that, clip) ==
    MapToPolygons(oper(this, that, Normal(this), Normal(that), clip))

(***************************************************************************)
(* Triangle.intersect                                                      *)
(***************************************************************************)
\* The largest k in lo..hi with k * k <= n.
RECURSIVE RootBetween(_, _, _)
RootBetween(n, lo, hi) ==
    IF lo = hi THEN lo
    ELSE LET mid == (lo + hi + 1) \div 2
         IN  IF mid * mid <= n THEN RootBetween(n, mid, hi)
             ELSE RootBetween(n, lo, mid - 1)

\* Math.sqrt: exact on the squares of rationals, rounded down in numerator
\* and denominator elsewhere.
MathSqrt(a) ==
    IF IsNaN(a) \/ a[1] < 0 THEN NaN
    ELSE IF a[2] = 0 THEN a
    ELSE Q(RootBetween(a[1], 0, IF a[1] < 46340 THEN a[1] ELSE 46340),
           RootBetween(a[2], 0, IF a[2] < 46340 THEN a[2] ELSE 46340))

\* Vector.length
length(v) == MathSqrt(lengthSquared(v))

\* Vector.unit()
unit(v) == VScale(v, Div(R(1), length(v)))

\* a === b for numbers: NaN is not equal to itself.
StrictEquals(a, b) == ~IsNaN(a) /\ ~IsNaN(b) /\ a = b

\* Triangle.normal
triangleNormal(this) ==
    Cross(VSubtract(this[2], this[1]), VSubtract(this[3], this[2]))

\* intersectThreePlanes of Triangle.intersect
intersectThreePlanes(N1, d1, N2, d2, N3) ==
    LET det == determinant(fromColumns(N1, N2, N3))
        O1 == VScale(Cross(N2, N3), Neg(d1))
        O2 == VAdd(O1, VScale(Cross(N3, N1), Neg(d2)))
    IN  VScale(O2, Div(R(1), det))

\* N1 and N2 of Triangle.intersect: the normal of the plane of a triangle.
PlaneNormal(t) == Cross(VSubtract(t[2], t[1]), VSubtract(t[3], t[1]))

\* dist1 and dist2: the signed distances of the vertices of t from the plane
\* N * X + d = 0.
SignedDistances(t, N, d) == [i \in 1..Len(t) |-> Add(Dot(N, t[i]), d)]

\* The rejection test: all vertices farther than EPSILON from the plane and
\* on one side of it.
OneSide(dist) ==
    /\ \A i \in 1..Len(dist) : Gt(MathAbs(dist[i]), Eps)
    /\ StrictEquals(MathSign(dist[1]), MathSign(dist[2]))
    /\ StrictEquals(MathSign(dist[1]), MathSign(dist[3]))

\* paired1, paired2 and lone of Triangle.intersect; the source indexes from
\* 0, the vertex k of the source is the vertex k + 1 here.
Pairing(dist) ==
    IF StrictEquals(sign(dist[1]), sign(dist[2]))
    THEN [paired1 |-> 1, paired2 |-> 2, lone |-> 3]
    ELSE IF StrictEquals(sign(dist[1]), sign(dist[3]))
    THEN [paired1 |-> 1, paired2 |-> 3, lone |-> 2]
    ELSE IF StrictEquals(sign(dist[2]), sign(dist[3]))
    THEN [paired1 |-> 2, paired2 |-> 3, lone |-> 1]
    ELSE IF dist[1] = R(0)
    THEN [paired1 |-> 1, paired2 |-> 2, lone |-> 3]
    ELSE [paired1 |-> 2, paired2 |-> 3, lone |-> 1]

\* proj[paired] + (proj[lone] - proj[paired]) * dist[paired] /
\* (dist[paired] - dist[lone])
EdgeParameter(proj, dist, paired, lone) ==
    Add(proj[paired],
        Div(Mul(Sub(proj[lone], proj[paired]), dist[paired]),
            Sub(dist[paired], dist[lone])))

\* interval1 and interval2 before they are sorted: the parameters on the
\* line O + t D at which the edges from the paired vertices to the lone
\* vertex of t cross the plane of the other triangle.
Interval(t, dist, O, D) ==
    LET proj == [i \in 1..Len(t) |-> Dot(D, VSubtract(t[i], O))]
        pr == Pairing(dist)
    IN  << EdgeParameter(proj, dist, pr.paired1, pr.lone),
           EdgeParameter(proj, dist, pr.paired2, pr.lone) >>

\* Number of digits after the decimal point that Number::toString is
\* modelled to.
FractionDigits == 16

\* The decimal digits of the natural number n, as UTF-16 code units.
RECURSIVE DigitsOf(_)
DigitsOf(n) ==
    IF n < 10 THEN <<48 + n>> ELSE Append(DigitsOf(n \div 10), 48 + (n % 10))

\* The first k decimal digits of rem / d, none after the last that is not 0.
RECURSIVE FractionOf(_, _, _)
FractionOf(rem, d, k) ==
    IF rem = 0 \/ k = 0 THEN <<>>
    ELSE <<48 + ((rem * 10) \div d)>> \o FractionOf((rem * 10) % d, d, k - 1)

\* String(a) as UTF-16 code units: "NaN", "Infinity", "-Infinity" or the
\* decimal expansion with a leading "-" for a negative number.
NumberToString(a) ==
    IF IsNaN(a) THEN <<78, 97, 78>>
    ELSE IF a[2] = 0
    THEN (IF a[1] < 0 THEN <<45>> ELSE <<>>) \o <<73, 110, 102, 105, 110, 105, 116, 121>>
    ELSE LET n == Abs(a[1])
         IN  (IF a[1] < 0 THEN <<45>> ELSE <<>>)
             \o DigitsOf(n \div a[2])
             \o (IF n % a[2] = 0 THEN <<>>
                 ELSE <<46>> \o FractionOf(n % a[2], a[2], FractionDigits))

\* s < t for strings: the order of their UTF-16 code units.
RECURSIVE StringLess(_, _)
StringLess(s, t) ==
    IF Len(t) = 0 THEN FALSE
    ELSE IF Len(s) = 0 THEN TRUE
    ELSE IF s[1] # t[1] THEN s[1] < t[1]
    ELSE StringLess(Tail(s), Tail(t))

\* Array.prototype.sort() of an array of two numbers without a compare
\* function: the elements are ordered by their strings.
sort(interval) ==
    IF StringLess(NumberToString(interval[2]), NumberToString(interval[1]))
    THEN <<interval[2], interval[1]>>
    ELSE interval

\* The value Triangle.intersect returns and the class it is an instance of.
Returned(class, value) == [class |-> class, returns |-> value]

\* The switch of the co-planar branch on the length of the result.
ShapeOf(vertices) ==
    IF Len(vertices) = 0 THEN Returned("null", Null)
    ELSE IF Len(vertices) = 3
    THEN Returned("Triangle", Triangle(vertices[1], vertices[2], vertices[3]))
    ELSE Returned("Polygon", Polygon(vertices))

\* if (result.length > 0) result = result[0], then the switch; res is what
\* super.intersect(other) gave.
FirstShape(res) ==
    IF "throws" \in DOMAIN res THEN res
    ELSE IF Len(res.returns) > 0 THEN ShapeOf(res.returns[1])
    ELSE ShapeOf(res.returns)

\* The co-planar branch of Triangle.intersect: super.intersect(other), then
\* the switch on the length of the first polygon of the result.  clip is
\* what the clipping library returned to oper.
CoplanarIntersect(this, that, clip) ==
    FirstShape(MapToPolygons(oper(this, that, triangleNormal(this), triangleNormal(that), clip)))

\* The end of Triangle.intersect, from the sorted intervals on.
OverlapResult(interval1, interval2, O, D) ==
    LET overlap == << MathMax(interval1[1], interval2[1]),
                      MathMin(interval1[2], interval2[2]) >>
    IN  IF Gt(Sub(overlap[2], overlap[1]), Eps)
        THEN Returned("Segment", Segment(VAdd(O, VScale(D, overlap[1])),
                                         VAdd(O, VScale(D, overlap[2]))))
        ELSE IF Lt(Sub(overlap[1], overlap[2]), Eps)
        THEN Returned("Vector", VAdd(O, VScale(D, overlap[1])))
        ELSE Returned("null", Null)

\* D and O of Triangle.intersect: the line O + t D in which the planes of
\* the two triangles meet.
IntersectionLine(this, that) ==
    LET N1 == PlaneNormal(this)
        N2 == PlaneNormal(that)
        D == unit(Cross(N1, N2))
    IN  [D |-> D,
         O |-> intersectThreePlanes(N1, Neg(Dot(N1, this[1])),
                                    N2, Neg(Dot(N2, that[1])), D)]

\* Triangle.intersect(other); clip is what the clipping library returns if
\* the co-planar branch is taken.
triangleIntersect(this, that, clip) ==
    IF Len(that) # 3 THEN TypeError
    ELSE LET N2 == PlaneNormal(that)
             d2 == Neg(Dot(N2, that[1]))
             dist1 == SignedDistances(this, N2, d2)
             N1 == PlaneNormal(this)
             d1 == Neg(Dot(N1, this[1]))
             dist2 == SignedDistances(that, N1, d1)
         IN  IF OneSide(dist1) THEN Returned("null", Null)
             ELSE IF OneSide(dist2) THEN Returned("null", Null)
             ELSE IF /\ \A i \in 1..3 : Lt(MathAbs(dist1[i]), Eps)
                     /\ \A i \in 1..3 : Lt(MathAbs(dist2[i]), Eps)
             THEN CoplanarIntersect(this, that, clip)
             ELSE LET line == IntersectionLine(this, that)
                  IN  OverlapResult(sort(Interval(this, dist1, line.O, line.D)),
                                    sort(Interval(that, dist2, line.O, line.D)),
                                    line.O, line.D)

(***************************************************************************)
(* Mesh                                                                    *)
(***************************************************************************)
\* The Triangle objects meshes are built from.  A face of a mesh is the
\* index of its object here: two indices are the same face exactly when
\* they are the same object (Array.prototype.includes compares objects by
\* identity).  Faces 1-2 share a vertex, 3 has a vertex within EPSILON of a
\* vertex of 2, 4-5 share a vertex and are away from 1-3, and 6 is a
\* second object with the vertices of 1.
FacePool ==
    << Triangle(Vec(0, 0, 0), Vec(40, 0, 0), Vec(0, 40, 10)),
       Triangle(Vec(40, 0, 0), Vec(80, 0, 0), Vec(40, 40, 40)),
       Triangle(Vec(81, 1, 0), Vec(120, 0, 0), Vec(90, 40, 40)),
       Triangle(Vec(200, 200, 200), Vec(240, 200, 200), Vec(200, 240, 280)),
       Triangle(Vec(200, 200, 200), Vec(160, 200, 120), Vec(40, 160, 120)),
       Triangle(Vec(0, 0, 0), Vec(40, 0, 0), Vec(0, 40, 10)) >>

Faces == 1..Len(FacePool)

Meshes == UNION {[1..n -> Faces] : n \in 0..MaxFaces}

Includes(s, e) == \E i \in 1..Len(s) : s[i] = e

\* SharesVertex with the vertices compared on the x axis only.
SharesVertexXOnly(remainingFace, selectedFace) ==
    \E i \in 1..Len(FacePool[remainingFace]) :
        \E j \in 1..Len(FacePool[selectedFace]) :
            Lt(MathAbs(Sub(FacePool[remainingFace][i].x, FacePool[selectedFace][j].x)), Eps)

\* remainingFace.some(vr => selectedFace.some(vs => vr.equals(vs)))
SharesVertex(remainingFace, selectedFace) ==
    \E i \in 1..Len(FacePool[remainingFace]) :
        \E j \in 1..Len(FacePool[selectedFace]) :
            VEquals(FacePool[remainingFace][i], FacePool[selectedFace][j])

\* SplitBody where the iteration that starts a sub-mesh only selects the seed
\* face: the seed is added to the sub-mesh and leaves `remaining` in the next
\* iteration.
SplitBodySeedOnly(st) ==
    LET fresh == Len(st.selected) = 0
        res1 == IF fresh THEN Append(st.result, <<>>) ELSE st.result
        sel1 == IF fresh THEN <<st.remaining[1]>> ELSE st.selected
        res2 == [res1 EXCEPT ![Len(res1)] = @ \o sel1]
        NotSelected(face) == ~Includes(sel1, face)
        rem2 == SelectSeq(st.remaining, NotSelected)
        Adjacent(face) == \E k \in 1..Len(sel1) : SharesVertex(face, sel1[k])
    IN  IF fresh
        THEN [remaining |-> st.remaining, selected |-> sel1, result |-> res1]
        ELSE [remaining |-> rem2, selected |-> SelectSeq(rem2, Adjacent), result |-> res2]

\* One iteration of the while loop of split(); `current` is the last
\* element of result.
SplitBody(st) ==
    LET fresh == Len(st.selected) = 0
        res1 == IF fresh THEN Append(st.result, <<>>) ELSE st.result
        sel1 == IF fresh THEN <<st.remaining[1]>> ELSE st.selected
        res2 == [res1 EXCEPT ![Len(res1)] = @ \o sel1]
        NotSelected(face) == ~Includes(sel1, face)
        rem2 == SelectSeq(st.remaining, NotSelected)
        Adjacent(face) == \E k \in 1..Len(sel1) : SharesVertex(face, sel1[k])
    IN  [remaining |-> rem2, selected |-> SelectSeq(rem2, Adjacent), result |-> res2]

RECURSIVE SplitLoop(_)
SplitLoop(st) == IF Len(st.remaining) > 0 THEN SplitLoop(SplitBody(st)) ELSE st.result

\* Mesh.split()
split(m) == SplitLoop([remaining |-> m, selected |-> <<>>, result |-> <<>>])

\* Mesh.isContiguous()
isContiguous(m) == Len(split(m)) > 1

\* The loop of Mesh.cut over cutResults[1..n]: the faces collected for
\* `side`.
RECURSIVE CollectCut(_, _, _)
CollectCut(cutResults, n, side) ==
    IF n = 0 THEN <<>>
    ELSE LET rest == CollectCut(cutResults, n - 1, side)
             r == cutResults[n]
         IN  IF isEmpty(r[side]) THEN rest ELSE rest \o tesselate(r[side])

\* Mesh.cut(normal, offset); m is a sequence of faces of FacePool.  A face
\* whose cut raised, or returned undefined, makes Mesh.cut raise.
meshcut(m, normal, offset) ==
    LET cutResults == [i \in 1..Len(m) |-> cut(FacePool[m[i]], normal, offset)]
    IN  IF \E i \in 1..Len(m) : cutResults[i] \in {Null, TypeError} THEN TypeError
        ELSE [above |-> CollectCut(cutResults, Len(m), "above"),
              below |-> CollectCut(cutResults, Len(m), "below")]

\* The planes meshes are cut with.
MeshPlanes ==
    { [normal |-> Vec(1, 0, 0), offset |-> R(20)],
      [normal |-> Vec(0, 0, 1), offset |-> R(20)],
      [normal |-> Vec(1, 1, 1), offset |-> R(0)] }

(***************************************************************************)
(* Mesh operations as a state machine                                      *)
(***************************************************************************)
Init ==
    /\ pc = "new"
    /\ mesh = <<>>
    /\ remaining = <<>>
    /\ selected = <<>>
    /\ result = <<>>
    /\ contiguous = Null
    /\ meshCut = Null
    /\ plane = Null
    /\ args = Null /\ tri = Null /\ cutRes = Null /\ other = Null /\ eqRes = Null
    /\ segG = Null /\ segH = Null /\ isect = Null
    /\ iterations = 0 /\ coll = Null /\ triIsect = Null
    /\ vecV = Null /\ vecW = Null /\ vecEq = Null
    /\ polyThis = Null /\ polyOther = Null /\ mode = Null /\ clipped = Null /\ operRes = Null
    /\ queryPoint = Null /\ polyEq = Null /\ contained = Null

\* new Mesh(faces)
NewMesh ==
    /\ pc = "new"
    /\ \E m \in Meshes : mesh' = m
    /\ pc' = "ready"
    /\ UNCHANGED <<queryVars, remaining, selected, result, contiguous, meshCut, plane, triVars, segVars,
                   iterations, coll, triIsect, vecVars, polyVars>>

\* split(): the statements before the loop
SplitEnter ==
    /\ pc = "ready"
    /\ remaining' = mesh
    /\ selected' = <<>>
    /\ result' = <<>>
    /\ iterations' = 0
    /\ pc' = "split"
    /\ UNCHANGED <<queryVars, mesh, contiguous, meshCut, plane, triVars, segVars,
                   coll, triIsect, vecVars, polyVars>>

\* split(): one iteration of the loop
SplitIterate ==
    /\ pc = "split"
    /\ Len(remaining) > 0
    /\ LET st == SplitBody([remaining |-> remaining, selected |-> selected,
                            result |-> result])
       IN  /\ remaining' = st.remaining
           /\ selected' = st.selected
           /\ result' = st.result
    /\ iterations' = iterations + 1
    /\ UNCHANGED <<queryVars, pc, mesh, contiguous, meshCut, plane, triVars, segVars,
                   coll, triIsect, vecVars, polyVars>>

\* split(): the loop ends and the sub-meshes are returned
SplitReturn ==
    /\ pc = "split"
    /\ Len(remaining) = 0
    /\ pc' = "split_done"
    /\ UNCHANGED <<queryVars, meshVars, plane, triVars, segVars,
                   iterations, coll, triIsect, vecVars, polyVars>>

\* isContiguous()
IsContiguous ==
    /\ pc = "ready"
    /\ contiguous' = isContiguous(mesh)
    /\ result' = split(mesh)
    /\ pc' = "contiguous_done"
    /\ UNCHANGED <<queryVars, mesh, remaining, selected, meshCut, plane, triVars, segVars,
                   iterations, coll, triIsect, vecVars, polyVars>>

\* cut(normal, offset)
MeshCut ==
    /\ pc = "ready"
    /\ \E p \in MeshPlanes :
          /\ plane' = p
          /\ meshCut' = meshcut(mesh, p.normal, p.offset)
    /\ pc' = "cut_done"
    /\ UNCHANGED <<queryVars, mesh, remaining, selected, result, contiguous, triVars, segVars,
                   iterations, coll, triIsect, vecVars, polyVars>>

MeshNext ==
    \/ NewMesh
    \/ SplitEnter
    \/ SplitIterate
    \/ SplitReturn
    \/ IsContiguous
    \/ MeshCut

SpecMesh == Init /\ [][MeshNext]_vars

(***************************************************************************)
(* Triangle operations as a state machine                                  *)
(***************************************************************************)
\* The points triangles are built from: 5 is within EPSILON of 1.
PointPool ==
    << Vec(0, 0, 0), Vec(10, 0, 2), Vec(0, 10, 2), Vec(1, 1, -10), Vec(1, 0, 1),
       Vec(10, 10, 12), Vec(-3, 7, 5) >>

Points == {PointPool[i] : i \in 1..NumPoints}

\* The planes triangles are cut with.
TriPlanes ==
    { [normal |-> Vec(0, 0, 1), offset |-> R(0)],
      [normal |-> Vec(0, 0, 1), offset |-> R(4)],
      [normal |-> Vec(0, 0, 1), offset |-> R(-4)],
      [normal |-> Vec(0, 0, 1), offset |-> R(2)],
      [normal |-> Vec(0, 0, -1), offset |-> R(4)],
      [normal |-> Vec(1, 1, 1), offset |-> R(0)] }

\* new Triangle(a, b, c)
NewTriangle ==
    /\ pc = "new"
    /\ \E a, b, c \in Points :
          /\ args' = <<a, b, c>>
          /\ tri' = Triangle(a, b, c)
    /\ pc' = "tri"
    /\ UNCHANGED <<queryVars, meshVars, plane, cutRes, other, eqRes, segVars,
                   iterations, coll, triIsect, vecVars, polyVars>>

\* tri.cut(normal, offset)
TriCut ==
    /\ pc = "tri"
    /\ \E p \in TriPlanes :
          /\ plane' = p
          /\ cutRes' = cut(tri, p.normal, p.offset)
    /\ pc' = "cut_done"
    /\ UNCHANGED <<queryVars, meshVars, args, tri, other, eqRes, segVars,
                   iterations, coll, triIsect, vecVars, polyVars>>

\* tri.equals(other) and other.equals(tri) for a second Triangle
TriEquals ==
    /\ pc = "tri"
    /\ \E a, b, c \in Points :
          LET o == Triangle(a, b, c)
          IN  /\ other' = o
              /\ eqRes' = [fwd |-> equals(tri, o), bwd |-> equals(o, tri)]
    /\ pc' = "equals_done"
    /\ UNCHANGED <<queryVars, meshVars, plane, args, tri, cutRes, segVars,
                   iterations, coll, triIsect, vecVars, polyVars>>

\* tri.equals(other) for an array of 2 or of 4 vertices
TriEqualsArray ==
    /\ pc = "tri"
    /\ \E a, b, c \in Points : \E o \in {<<a, b>>, <<a, b, c, a>>, <<a, b, c, b>>} :
          /\ other' = o
          /\ eqRes' = [fwd |-> equals(tri, o)]
    /\ pc' = "equals_array_done"
    /\ UNCHANGED <<queryVars, meshVars, plane, args, tri, cutRes, segVars,
                   iterations, coll, triIsect, vecVars, polyVars>>

\* The triangles that are intersected with each other: H1 and H2 lie in the
\* plane z = 0, P1 in the plane z = 20 above H1, V1 to V4 in the plane y = 0
\* and X1 in the plane x = 0.  The planes z = 0 and y = 0 meet in the x
\* axis, which H1 crosses from 2 to 10, H2 from -12 to -6, V1 from 5 to 8,
\* V2 from -10 to -8, V3 from 10 to 14 and V4, with a vertex on it, from 4
\* to 8.  U1 and U2 are small triangles in the planes z = 0 and z = 2, whose
\* normals are of length 1: each vertex of one is at the signed distance
\* EPSILON from the plane of the other.
IsectPool ==
    { Triangle(Vec(2, 4, 0), Vec(2, -4, 0), Vec(18, 4, 0)),
      Triangle(Vec(-12, -4, 0), Vec(-12, 4, 0), Vec(0, -4, 0)),
      Triangle(Vec(2, 4, 20), Vec(2, -4, 20), Vec(18, 4, 20)),
      Triangle(Vec(5, 0, 4), Vec(5, 0, -4), Vec(11, 0, 4)),
      Triangle(Vec(-10, 0, 4), Vec(-10, 0, -4), Vec(-6, 0, 4)),
      Triangle(Vec(10, 0, -4), Vec(10, 0, 4), Vec(18, 0, -4)),
      Triangle(Vec(4, 0, 0), Vec(8, 0, 3), Vec(8, 0, -3)),
      Triangle(Vec(0, -5, 4), Vec(0, -5, -4), Vec(0, 9, 4)),
      Triangle(Vec(0, 0, 0), Vec(1, 0, 0), Vec(0, 1, 0)),
      Triangle(Vec(0, 0, 2), Vec(1, 0, 2), Vec(0, 1, 2)) }

\* p1 of oper for a triangle with integer coordinates:
\* poly1.map(vertex => [ vertex[dim1], vertex[dim2] ])
ProjectedRing(t) ==
    LET dims == Dims(Axis(triangleNormal(t)))
    IN  [i \in 1..Len(t) |-> <<t[i][dims[1]][1], t[i][dims[2]][1]>>]

\* The ring from each of its vertices on.
Rotations(ring) ==
    { [i \in 1..Len(ring) |-> ring[((i + k - 1) % Len(ring)) + 1]] : k \in 0..(Len(ring) - 1) }

\* What a clipping library that returns a ring unchanged when it is
\* intersected with itself may return for the triangle t: one polygon of one
\* closed ring with the vertices of t, from any vertex on, in either
\* direction.
SelfClips(t) ==
    { <<<<Append(ring, ring[1])>>>> :
         ring \in Rotations(ProjectedRing(t)) \cup Rotations(Reverse(ProjectedRing(t))) }

\* Whether Triangle.intersect takes its co-planar branch for t and o.
InOnePlane(t, o) ==
    /\ \A i \in 1..3 :
          Lt(MathAbs(Add(Dot(PlaneNormal(o), t[i]), Neg(Dot(PlaneNormal(o), o[1])))), Eps)
    /\ \A i \in 1..3 :
          Lt(MathAbs(Add(Dot(PlaneNormal(t), o[i]), Neg(Dot(PlaneNormal(t), t[1])))), Eps)

\* tri.intersect(tri)
TriIntersectSelf ==
    /\ pc = "tri"
    /\ \E c \in SelfClips(tri) :
          /\ clipped' = c
          /\ triIsect' = triangleIntersect(tri, tri, c)
    /\ other' = tri
    /\ pc' = "self_done"
    /\ UNCHANGED <<queryVars, meshVars, plane, args, tri, cutRes, eqRes, segVars,
                   iterations, coll, vecVars, polyThis, polyOther, mode, operRes>>

\* t.intersect(o) for two triangles that lie in different planes, or for
\* one triangle and itself.
TriIntersect ==
    /\ pc = "new"
    /\ \E t, o \in IsectPool :
          /\ t = o \/ ~InOnePlane(t, o)
          /\ \E c \in (IF t = o THEN SelfClips(t) ELSE {<<>>}) :
                /\ tri' = t
                /\ other' = o
                /\ clipped' = c
                /\ triIsect' = triangleIntersect(t, o, c)
    /\ pc' = "intersect_done"
    /\ UNCHANGED <<queryVars, meshVars, plane, args, cutRes, eqRes, segVars,
                   iterations, coll, vecVars, polyThis, polyOther, mode, operRes>>

TriNext ==
    \/ NewTriangle
    \/ TriCut
    \/ TriEquals
    \/ TriEqualsArray
    \/ TriIntersectSelf
    \/ TriIntersect

SpecTri == Init /\ [][TriNext]_vars

(***************************************************************************)
(* Segment operations as a state machine                                   *)
(***************************************************************************)
\* End points of segments: points of the diagonal through the origin, of
\* the y axis (a line whose direction has x = 0) and of a line across both.
SegPoints ==
    {Vec(k, k, k) : k \in 0..MaxCoord}
        \cup {Vec(0, k, 0) : k \in 1..MaxCoord}
        \cup {Vec(2, 0, 0), Vec(0, 2, 2)}

\* new Segment(a, b) twice
NewSegments ==
    /\ pc = "new"
    /\ \E a, b, c, e \in SegPoints :
          /\ a # b /\ c # e
          /\ segG' = Segment(a, b)
          /\ segH' = Segment(c, e)
    /\ pc' = "seg"
    /\ UNCHANGED <<queryVars, meshVars, plane, triVars, isect,
                   iterations, coll, triIsect, vecVars, polyVars>>

\* segG.intersect(segH)
SegIntersect ==
    /\ pc = "seg"
    /\ isect' = intersect(segG, segH)
    /\ pc' = "intersect_done"
    /\ UNCHANGED <<queryVars, meshVars, plane, triVars, segG, segH,
                   iterations, coll, triIsect, vecVars, polyVars>>

\* segG.collinear(segH)
SegCollinear ==
    /\ pc = "seg"
    /\ coll' = collinear(segG, segH)
    /\ pc' = "collinear_done"
    /\ UNCHANGED <<queryVars, meshVars, plane, triVars, segVars,
                   iterations, triIsect, vecVars, polyVars>>

SegNext ==
    \/ NewSegments
    \/ SegIntersect
    \/ SegCollinear

SpecSeg == Init /\ [][SegNext]_vars

(***************************************************************************)
(* Vector operations as a state machine                                    *)
(***************************************************************************)
\* The vectors of the integer grid 0..MaxCoord on every axis.
VecPoints == {Vec(x, y, z) : x, y, z \in 0..MaxCoord}

\* new Vector(x, y, z) twice
NewVectors ==
    /\ pc = "new"
    /\ \E v, w \in VecPoints : vecV' = v /\ vecW' = w
    /\ pc' = "vec"
    /\ UNCHANGED <<queryVars, meshVars, plane, triVars, segVars,
                   iterations, coll, triIsect, vecEq, polyVars>>

\* v.equals(w), w.equals(v) and v.equals(v)
VecEquals ==
    /\ pc = "vec"
    /\ vecEq' = [fwd |-> VEquals(vecV, vecW), bwd |-> VEquals(vecW, vecV),
                 self |-> VEquals(vecV, vecV)]
    /\ pc' = "vec_equals_done"
    /\ UNCHANGED <<queryVars, meshVars, plane, triVars, segVars,
                   iterations, coll, triIsect, vecV, vecW, polyVars>>

VecNext ==
    \/ NewVectors
    \/ VecEquals

SpecVec == Init /\ [][VecNext]_vars

(***************************************************************************)
(* Polygon boolean operations as a state machine                           *)
(***************************************************************************)
\* The polygons the operations are applied to: in the plane z = 0 (a square,
\* a triangle, an L shape), in the parallel plane z = 10, in the plane
\* z = y, in the plane y = 0 in both orientations, and two in the plane
\* x + y + z = 60.
PolygonPool ==
    << Polygon(<<Vec(0, 0, 0), Vec(40, 0, 0), Vec(40, 40, 0), Vec(0, 40, 0)>>),
       Polygon(<<Vec(10, 10, 0), Vec(30, 10, 0), Vec(20, 30, 0)>>),
       Polygon(<<Vec(0, 0, 0), Vec(60, 0, 0), Vec(60, 20, 0), Vec(20, 20, 0),
                 Vec(20, 60, 0), Vec(0, 60, 0)>>),
       Polygon(<<Vec(0, 0, 10), Vec(40, 0, 10), Vec(40, 40, 10), Vec(0, 40, 10)>>),
       Polygon(<<Vec(0, 0, 0), Vec(40, 0, 0), Vec(40, 40, 40), Vec(0, 40, 40)>>),
       Polygon(<<Vec(0, 0, 0), Vec(40, 0, 0), Vec(40, 0, 40), Vec(0, 0, 40)>>),
       Polygon(<<Vec(0, 0, 0), Vec(0, 0, 40), Vec(40, 0, 40), Vec(40, 0, 0)>>),
       Polygon(<<Vec(60, 0, 0), Vec(0, 60, 0), Vec(0, 0, 60)>>),
       Polygon(<<Vec(20, 20, 20), Vec(40, 20, 0), Vec(20, 40, 0)>>) >>

\* Rings the clipping library returns: exteriors (counter-clockwise) and
\* holes (clockwise), closed.
Square == <<<<0, 0>>, <<40, 0>>, <<40, 40>>, <<0, 40>>, <<0, 0>>>>

SquareHole == <<<<10, 10>>, <<10, 30>>, <<30, 30>>, <<30, 10>>, <<10, 10>>>>

Wide == <<<<0, 0>>, <<80, 0>>, <<80, 40>>, <<0, 40>>, <<0, 0>>>>

WideHole == <<<<50, 10>>, <<50, 30>>, <<70, 30>>, <<70, 10>>, <<50, 10>>>>

Far == <<<<100, 0>>, <<140, 0>>, <<140, 40>>, <<100, 40>>, <<100, 0>>>>

FarHole == <<<<110, 10>>, <<110, 30>>, <<130, 30>>, <<130, 10>>, <<110, 10>>>>

Wedge == <<<<10, 10>>, <<30, 10>>, <<20, 30>>, <<10, 10>>>>

\* An exterior with two arms and a hole in the left arm, next to the gap
\* between the arms.
TwoArms ==
    <<<<0, 0>>, <<110, 0>>, <<110, 100>>, <<102, 100>>, <<102, 20>>, <<100, 20>>,
      <<100, 100>>, <<0, 100>>, <<0, 0>>>>

ArmHole == <<<<90, 40>>, <<90, 60>>, <<95, 60>>, <<95, 40>>, <<90, 40>>>>

\* An exterior and a hole with vertices on the bisection line.
Hexagon ==
    <<<<0, 0>>, <<40, 0>>, <<50, 20>>, <<40, 40>>, <<0, 40>>, <<-10, 20>>, <<0, 0>>>>

Diamond == <<<<10, 20>>, <<20, 30>>, <<30, 20>>, <<20, 10>>, <<10, 20>>>>

\* A hole that touches the exterior Hexagon in its vertex on the bisection
\* line.
TouchingDiamond == <<<<-10, 20>>, <<20, 30>>, <<30, 20>>, <<20, 10>>, <<-10, 20>>>>

\* An exterior with a vertex less than epsilon above the bisection line of
\* SquareHole.
Bulge == <<<<0, 0>>, <<40, 0>>, <<44, 21>>, <<40, 40>>, <<0, 40>>, <<0, 0>>>>

\* Results of the clipping library: nothing, one polygon, two polygons, a
\* polygon with one hole, with two holes, two polygons with a hole each, a
\* polygon with a hole after and before a polygon without.
ClipPool ==
    { <<>>,
      <<<<Square>>>>,
      <<<<Wedge>>, <<Far>>>>,
      <<<<Square, SquareHole>>>>,
      <<<<Wide, SquareHole, WideHole>>>>,
      <<<<Square, SquareHole>>, <<Far, FarHole>>>>,
      <<<<Far>>, <<Square, SquareHole>>>>,
      <<<<Square, SquareHole>>, <<Far>>>>,
      <<<<TwoArms, ArmHole>>>>,
      <<<<Hexagon, Diamond>>>>,
      <<<<Hexagon, SquareHole>>>>,
      <<<<Hexagon, TouchingDiamond>>>>,
      <<<<Bulge, SquareHole>>>> }

\* new Polygon(...) twice
NewPolygons ==
    /\ pc = "new"
    /\ \E i, j \in 1..Len(PolygonPool) :
          /\ polyThis' = PolygonPool[i]
          /\ polyOther' = PolygonPool[j]
    /\ pc' = "poly"
    /\ UNCHANGED <<queryVars, meshVars, plane, triVars, segVars,
                   iterations, coll, triIsect, vecVars, mode, clipped, operRes>>

\* One boolean operation; the result of the clipping library is any of
\* ClipPool.
BooleanOperation(m) ==
    /\ pc = "poly"
    /\ mode' = m
    /\ \E clip \in ClipPool :
          /\ clipped' = clip
          /\ operRes' = booleanOperation(polyThis, polyOther, clip)
    /\ pc' = "oper_done"
    /\ UNCHANGED <<queryVars, meshVars, plane, triVars, segVars,
                   iterations, coll, triIsect, vecVars, polyThis, polyOther>>

\* polyThis.intersect(polyOther)
PolyIntersect == BooleanOperation("intersect")

\* polyThis.subtract(polyOther)
PolySubtract == BooleanOperation("difference")

\* polyThis.add(polyOther)
PolyAdd == BooleanOperation("union")

PolyNext ==
    \/ NewPolygons
    \/ PolyIntersect
    \/ PolySubtract
    \/ PolyAdd

SpecPoly == Init /\ [][PolyNext]_vars

(***************************************************************************)
(* Polygon.equals and Polygon.contains                                     *)
(***************************************************************************)
\* this.findIndex(v => v.equals(first)) from position i on: the position of
\* the first vertex that equals `first`, 0 if there is none (the source
\* indexes from 0 and returns -1).
RECURSIVE FindIndex(_, _, _)
FindIndex(this, first, i) ==
    IF i > Len(this) THEN 0
    ELSE IF VEquals(this[i], first) THEN i
    ELSE FindIndex(this, first, i + 1)

\* this.slice(idx).concat(this.slice(0, idx)), idx being a position from 1.
SliceConcat(this, idx) ==
    [k \in 1..Len(this) |-> this[((idx + k - 2) % Len(this)) + 1]]

\* vertices.length === other.length && vertices.every((v, i) => v.equals(other[i]))
EveryEquals(vertices, that) ==
    /\ Len(vertices) = Len(that)
    /\ \A i \in 1..Len(vertices) : VEquals(vertices[i], that[i])

\* Polygon.equals(other)
polygonEquals(this, that) ==
    IF Len(that) = 0 THEN Len(this) = 0
    ELSE IF FindIndex(this, that[1], 1) = 0 THEN FALSE
    ELSE EveryEquals(SliceConcat(this, FindIndex(this, that[1], 1)), that)

\* A coordinate of an object that may not have it: undefined, which is NaN
\* in arithmetic and in comparisons.
Coordinate(v, c) == IF c \in DOMAIN v THEN v[c] ELSE NaN

\* isLeft(P, Q, R) of contains
isLeft(p0, p1, p2) ==
    Sub(Mul(Sub(Coordinate(p1, "x"), Coordinate(p0, "x")),
            Sub(Coordinate(p2, "y"), Coordinate(p0, "y"))),
        Mul(Sub(Coordinate(p1, "y"), Coordinate(p0, "y")),
            Sub(Coordinate(p2, "x"), Coordinate(p0, "x"))))

\* poly: every vertex reduced to { [dim1]: v[dim1], [dim2]: v[dim2] }.
Reduced(this, dims) ==
    [i \in 1..Len(this) |-> [c \in {dims[1], dims[2]} |-> this[i][c]]]

\* One step of the reduce of contains: what the edge from a (a vertex of
\* poly) to b (a vertex of this) adds to the winding number.
EdgeWinding(a, b, p) ==
    IF Le(Coordinate(a, "y"), p.y)
    THEN IF Gt(b.y, p.y) /\ Ge(isLeft(a, b, p), R(0)) THEN 1 ELSE 0
    ELSE IF Le(b.y, p.y) /\ Le(isLeft(a, b, p), R(0)) THEN -1 ELSE 0

\* poly.reduce(..., 0) over the first n edges.
RECURSIVE WindingNumber(_, _, _, _)
WindingNumber(poly, this, p, n) ==
    IF n = 0 THEN 0
    ELSE WindingNumber(poly, this, p, n - 1)
            + EdgeWinding(poly[n], this[(n % Len(this)) + 1], p)

\* wn % 2: the remainder has the sign of the dividend.
Remainder(a, b) == IF a >= 0 THEN a % b ELSE -((-a) % b)

\* Polygon.contains(point)
contains(this, p) ==
    Remainder(WindingNumber(Reduced(this, Dims(Axis(Normal(this)))), this, p, Len(this)), 2) = 1

(***************************************************************************)
(* Polygon.equals and Polygon.contains as a state machine                  *)
(***************************************************************************)
MaxGrid == 8

\* The polygons that are compared: the polygon of the tests of equals, a
\* polygon with two vertices that are equal within the tolerance, and a
\* triangle.
EqualsPool ==
    << <<Vec(1, 1, 1), Vec(5, 5, 1), Vec(4, 8, 1), Vec(0, 5, 1), Vec(1, 3, 1)>>,
       <<Vec(0, 0, 0), Vec(1, 0, 0), Vec(10, 0, 0), Vec(10, 10, 0), Vec(0, 10, 0)>>,
       <<Vec(0, 0, 0), Vec(10, 0, 0), Vec(0, 10, 0)>> >>

\* vertices.filter((v, i) => i !== k)
Without(vertices, k) ==
    [i \in 1..(Len(vertices) - 1) |-> IF i < k THEN vertices[i] ELSE vertices[i + 1]]

\* What a polygon is compared with: the same vertices from any vertex on,
\* the vertices without one of them, another polygon of the pool, and the
\* polygon without vertices.
Comparands(vertices) ==
    { SliceConcat(vertices, k) : k \in 1..Len(vertices) }
        \cup { Without(vertices, k) : k \in 1..Len(vertices) }
        \cup { EqualsPool[i] : i \in 1..Len(EqualsPool) }
        \cup { <<>> }

\* new Polygon(...) twice, the second from the vertices of the first
NewPolygonPair ==
    /\ pc = "new"
    /\ \E i \in 1..Len(EqualsPool) : \E vertices \in Comparands(EqualsPool[i]) :
          /\ polyThis' = Polygon(EqualsPool[i])
          /\ polyOther' = Polygon(vertices)
    /\ pc' = "pair"
    /\ UNCHANGED <<meshVars, plane, triVars, segVars, iterations, coll, triIsect,
                   vecVars, mode, clipped, operRes, queryVars>>

\* polyThis.equals(polyOther)
PolyEquals ==
    /\ pc = "pair"
    /\ polyEq' = polygonEquals(polyThis, polyOther)
    /\ pc' = "equals_done"
    /\ UNCHANGED <<meshVars, plane, triVars, segVars, iterations, coll, triIsect,
                   vecVars, polyVars, queryPoint, contained>>

\* Outlines in two coordinates: the polygon of the tests of contains, the
\* same in the other direction, and a square.
Outlines ==
    << <<<<1, 1>>, <<5, 5>>, <<4, 8>>, <<0, 5>>, <<1, 3>>>>,
       <<<<1, 3>>, <<0, 5>>, <<4, 8>>, <<5, 5>>, <<1, 1>>>>,
       <<<<2, 2>>, <<6, 2>>, <<6, 6>>, <<2, 6>>>> >>

\* The planes the outlines are laid in, as the point of the plane with the
\* coordinates u and v: z = 1 as in the tests, x = 1, y = 1, and the
\* slanted planes z = 2x (normal largest on x) and x = 2z (largest on z).
PlaneCount == 5

PlanePoint(k, u, v) ==
    IF k = 1 THEN Vec(u, v, 1)
    ELSE IF k = 2 THEN Vec(1, u, v)
    ELSE IF k = 3 THEN Vec(u, 1, v)
    ELSE IF k = 4 THEN Vec(u, v, 2 * u)
    ELSE Vec(2 * u, v, u)

Laid(outline, k) ==
    [i \in 1..Len(outline) |-> PlanePoint(k, outline[i][1], outline[i][2])]

\* new Polygon(...) and a point of its plane
NewPolygonAndPoint ==
    /\ pc = "new"
    /\ \E i \in 1..Len(Outlines) : \E k \in 1..PlaneCount : \E u, v \in 0..MaxGrid :
          /\ polyThis' = Polygon(Laid(Outlines[i], k))
          /\ queryPoint' = PlanePoint(k, u, v)
    /\ pc' = "point"
    /\ UNCHANGED <<meshVars, plane, triVars, segVars, iterations, coll, triIsect,
                   vecVars, polyOther, mode, clipped, operRes, polyEq, contained>>

\* polyThis.contains(queryPoint)
PolyContains ==
    /\ pc = "point"
    /\ contained' = contains(polyThis, queryPoint)
    /\ pc' = "contains_done"
    /\ UNCHANGED <<meshVars, plane, triVars, segVars, iterations, coll, triIsect,
                   vecVars, polyVars, queryPoint, polyEq>>

QueryNext ==
    \/ NewPolygonPair
    \/ PolyEquals
    \/ NewPolygonAndPoint
    \/ PolyContains

SpecQuery == Init /\ [][QueryNext]_vars

(***************************************************************************)
(* Claims about Mesh.split and Mesh.isContiguous                           *)
(***************************************************************************)
\* Number of positions of s that hold e.
Count(s, e) == Cardinality({i \in 1..Len(s) : s[i] = e})

RECURSIVE Flatten(_)
Flatten(ss) == IF Len(ss) = 0 THEN <<>> ELSE Head(ss) \o Flatten(Tail(ss))

\* Two vectors whose coordinates differ by less than the tolerance on every
\* axis, written on the integer numerators and denominators.
WithinEps(a, b) ==
    LET n == a[1] * b[2] - b[1] * a[2]
    IN  Abs(n) < EPSILON * a[2] * b[2]

EpsEqual(v, w) == WithinEps(v.x, w.x) /\ WithinEps(v.y, w.y) /\ WithinEps(v.z, w.z)

\* Faces f and g have a pair of epsilon-equal vertices.
Linked(f, g) ==
    \E i \in 1..3 : \E j \in 1..3 : EpsEqual(FacePool[f][i], FacePool[g][j])

\* The faces of the set S that a chain of linked faces of S joins to a face
\* of the set R.
RECURSIVE ReachIn(_, _)
ReachIn(from, S) ==
    LET more == {g \in S \ from : \E f \in from : Linked(f, g)}
    IN  IF more = {} THEN from ELSE ReachIn(from \cup more, S)

Range(s) == {s[i] : i \in 1..Len(s)}

Contiguous(sub) ==
    \A f \in Range(sub) : ReachIn({f}, Range(sub)) = Range(sub)

\* C1: when split() returns, every face of the mesh is in the sub-meshes
\* exactly as often as it is in the mesh (once per position), and the
\* sub-meshes hold nothing else.
C1_SplitPartition ==
    pc = "split_done" =>
        \A f \in Faces : Count(Flatten(result), f) = Count(mesh, f)

\* C2: every sub-mesh split() returns is contiguous: any two of its faces
\* are joined by a chain of its faces in which consecutive faces have a pair
\* of epsilon-equal vertices.
C2_SubmeshesContiguous ==
    pc = "split_done" => \A i \in 1..Len(result) : Contiguous(result[i])

\* A returned sub-mesh with two faces that have no vertex in common, joined
\* only through a third face.
C2_Witness ==
    /\ pc = "split_done"
    /\ \E i \in 1..Len(result) :
          \E f, g \in Range(result[i]) : f # g /\ ~Linked(f, g)

\* C3: isContiguous() is true exactly when split() yields at most one
\* sub-mesh.
C3_IsContiguous ==
    pc = "contiguous_done" => (contiguous = (Len(result) <= 1))

\* C7: every face of both meshes Mesh.cut returns is a triangle.
C7_CutFacesAreTriangles ==
    (pc = "cut_done" /\ meshCut # TypeError) =>
        /\ \A i \in 1..Len(meshCut.above) : Len(meshCut.above[i]) = 3
        /\ \A i \in 1..Len(meshCut.below) : Len(meshCut.below[i]) = 3

(***************************************************************************)
(* Claims about Triangle                                                   *)
(***************************************************************************)
\* The three vertices of t are not on one line (t has a non-zero normal).
Proper(t) == Cross(VSubtract(t[2], t[1]), VSubtract(t[3], t[1])) # Vec(0, 0, 0)

\* Signed distance of the vertex v from the cut plane p.
Distance(v, p) == Sub(Dot(p.normal, v), p.offset)

\* The three signed distances of tri from the cut plane, as integers (the
\* points and planes of the model have integer coordinates).
TriDist == [i \in 1..3 |-> Distance(tri[i], plane)[1]]

AllOnPlane == \A i \in 1..3 : Abs(TriDist[i]) < EPSILON

AllAbove == \A i \in 1..3 : TriDist[i] > -EPSILON

AllBelow == \A i \in 1..3 : TriDist[i] < EPSILON

\* C4: a triangle with all |d| < eps is returned as above and as below;
\* otherwise a triangle with all d > -eps is returned as above with an empty
\* below, and one with all d < eps as below with an empty above.
C4_CutWholeTriangle ==
    pc = "cut_done" =>
        /\ AllOnPlane => cutRes = [above |-> tri, below |-> tri]
        /\ (~AllOnPlane /\ AllAbove) => cutRes = [above |-> tri, below |-> <<>>]
        /\ (~AllOnPlane /\ AllBelow) => cutRes = [above |-> <<>>, below |-> tri]

\* Triangles wholly on the positive side, wholly on the negative side (one
\* with a vertex within eps of the plane) and in the plane have been cut.
C4_Witness ==
    /\ pc = "cut_done"
    /\ ~AllOnPlane /\ AllBelow
    /\ \E i \in 1..3 : Abs(TriDist[i]) < EPSILON
    /\ cutRes.below = tri /\ cutRes.above = <<>>
    /\ tri[1] # tri[2] /\ tri[2] # tri[3] /\ tri[1] # tri[3]

\* The plane crosses tri and no vertex is on it: no |d| < eps, a vertex on
\* the positive and a vertex on the negative side.
CrossesNoVertexOn ==
    /\ \A i \in 1..3 : Abs(TriDist[i]) >= EPSILON
    /\ \E i \in 1..3 : TriDist[i] >= EPSILON
    /\ \E i \in 1..3 : TriDist[i] <= -EPSILON

\* The vertices of the polygon q that are no vertex of tri.
NewVertices(q) == {q[i] : i \in 1..Len(q)} \ Range(tri)

\* C5: a plane that crosses the triangle with no vertex on it yields a
\* triangle and a quadrilateral (7 vertices together) that hold the three
\* vertices of the triangle and two new points; both new points are on the
\* plane and in above and in below; above is at >= -eps and below at <= eps.
C5_CutAcross ==
    (pc = "cut_done" /\ Proper(tri) /\ CrossesNoVertexOn) =>
        /\ cutRes \notin {Null, TypeError}
        /\ {Len(cutRes.above), Len(cutRes.below)} = {3, 4}
        /\ Range(tri) \subseteq Range(cutRes.above) \cup Range(cutRes.below)
        /\ Cardinality(NewVertices(cutRes.above)) = 2
        /\ NewVertices(cutRes.above) = NewVertices(cutRes.below)
        /\ \A v \in NewVertices(cutRes.above) : Distance(v, plane) = R(0)
        /\ \A v \in Range(cutRes.above) : Ge(Distance(v, plane), Neg(Eps))
        /\ \A v \in Range(cutRes.below) : Le(Distance(v, plane), Eps)

\* Exactly one vertex is on the plane (|d| < eps) and the other two are on
\* opposite sides of it.
OneOnOthersOpposite ==
    \E i, j, k \in 1..3 :
        /\ {i, j, k} = 1..3
        /\ Abs(TriDist[i]) < EPSILON
        /\ TriDist[j] >= EPSILON
        /\ TriDist[k] <= -EPSILON

\* v is on the line through a and b.
OnLine(v, a, b) ==
    Cross(VSubtract(v, a), VSubtract(b, a)) = Vec(0, 0, 0)

\* C6: with one vertex on the plane and the other two on opposite sides,
\* above is the on-plane vertex, the positive vertex and the point P where
\* the opposite edge meets the plane, and below is the on-plane vertex, the
\* negative vertex and the same P.
C6_CutThroughVertex ==
    (pc = "cut_done" /\ Proper(tri) /\ OneOnOthersOpposite) =>
        \E i, j, k \in 1..3 :
            /\ {i, j, k} = 1..3
            /\ Abs(TriDist[i]) < EPSILON /\ TriDist[j] >= EPSILON /\ TriDist[k] <= -EPSILON
            /\ cutRes \notin {Null, TypeError}
            /\ Len(cutRes.above) = 3 /\ Len(cutRes.below) = 3
            /\ \E P \in Range(cutRes.above) :
                  /\ Distance(P, plane) = R(0)
                  /\ OnLine(P, tri[j], tri[k])
                  /\ Range(cutRes.above) = {tri[i], tri[j], P}
                  /\ Range(cutRes.below) = {tri[i], tri[k], P}

\* C8: the stored vertices of a constructed Triangle have det[v0 v1 v2] >= 0
\* and are the three vertices passed to the constructor.
C8_ConstructedWinding ==
    (pc = "tri" /\ Proper(tri)) =>
        /\ Ge(determinant(fromColumns(tri[1], tri[2], tri[3])), R(0))
        /\ \A v \in Points : Count(tri, v) = Count(args, v)

\* The vertices of t and of o can be paired one-to-one into pairs that are
\* equal within the tolerance.
OneToOne(t, o) ==
    /\ Len(o) = 3
    /\ \E f \in [1..3 -> 1..3] :
          /\ \A i, j \in 1..3 : i # j => f[i] # f[j]
          /\ \A i \in 1..3 : EpsEqual(t[i], o[f[i]])

\* C9: equals is true exactly when other has 3 vertices that pair one-to-one
\* with the vertices of this triangle, and a.equals(b) = b.equals(a).
C9_EqualsOneToOne ==
    /\ (pc = "equals_done" /\ Proper(tri) /\ Proper(other)) =>
          /\ eqRes.fwd = OneToOne(tri, other)
          /\ eqRes.fwd = eqRes.bwd
    /\ (pc = "equals_array_done" /\ Proper(tri)) => eqRes.fwd = OneToOne(tri, other)

\* Every vertex of t is equal within the tolerance to some vertex of o.
Covered(t, o) == \A i \in 1..3 : \E j \in 1..Len(o) : EpsEqual(t[i], o[j])

\* C9 amended: equals is true exactly when other has 3 vertices and every
\* vertex of this triangle equals some vertex of other (not necessarily
\* one-to-one); a one-to-one pairing therefore makes both directions true.
C9_EqualsCovered ==
    pc \in {"equals_done", "equals_array_done"} =>
        /\ eqRes.fwd = (Len(other) = 3 /\ Covered(tri, other))
        /\ OneToOne(tri, other) => eqRes.fwd
        /\ (pc = "equals_done" /\ OneToOne(tri, other)) => eqRes.bwd

\* Two triangles of pairwise different vertices: a.equals(b) is true with no
\* one-to-one pairing, and b.equals(a) is false.
C9_Witness ==
    /\ pc = "equals_done"
    /\ eqRes.fwd /\ ~eqRes.bwd
    /\ ~OneToOne(tri, other)
    /\ Proper(tri) /\ Proper(other)

(***************************************************************************)
(* Claims about Segment                                                    *)
(***************************************************************************)
\* Both end points of h are on the line through g.
CollinearSegments(g, h) == OnLine(h.a, g.a, g.b) /\ OnLine(h.b, g.a, g.b)

\* Position of the point v along g: 0 at g.a and |g|^2 at g.b (an integer,
\* the end points of the model have integer coordinates).
Along(g, v) == Dot(VSubtract(v, g.a), VSubtract(g.b, g.a))[1]

Min2(i, j) == IF i < j THEN i ELSE j

Max2(i, j) == IF i < j THEN j ELSE i

\* The common part of the collinear segments g and h is not empty.
SharePoint(g, h) ==
    Max2(0, Min2(Along(g, h.a), Along(g, h.b)))
        <= Min2(Along(g, g.b), Max2(Along(g, h.a), Along(g, h.b)))

\* The two end points of the common part of the collinear segments g and h.
CommonEnds(g, h) ==
    LET lo == Max2(0, Min2(Along(g, h.a), Along(g, h.b)))
        hi == Min2(Along(g, g.b), Max2(Along(g, h.a), Along(g, h.b)))
    IN  {v \in {g.a, g.b, h.a, h.b} : Along(g, v) \in {lo, hi}}

\* C10: for collinear segments, intersect returns the segment of their
\* common part when they share a point and null when they share none; a
\* segment intersected with itself is that segment.
C10_CollinearIntersect ==
    (pc = "intersect_done" /\ CollinearSegments(segG, segH)) =>
        /\ SharePoint(segG, segH) =>
              /\ IsSegment(isect)
              /\ {isect.a, isect.b} = CommonEnds(segG, segH)
        /\ ~SharePoint(segG, segH) => isect = Null
        /\ segH = segG => isect = segG

(***************************************************************************)
(* Mesh.split: order of the faces and termination                          *)
(***************************************************************************)
\* No face object is in the mesh twice.
Distinct(m) == \A i, j \in 1..Len(m) : m[i] = m[j] => i = j

\* C16: for a contiguous mesh, split() returns exactly one sub-mesh, and that
\* sub-mesh has the faces of the mesh in the order of the mesh (stated for
\* the meshes whose faces are distinct objects).
C16_ContiguousUnchanged ==
    (pc = "split_done" /\ Len(mesh) > 0 /\ Distinct(mesh) /\ Contiguous(mesh))
        => result = <<mesh>>

\* C17: split() terminates: while the loop runs and when it has ended, the
\* iterations made so far and the faces still unassigned together never
\* exceed the faces of the mesh, so every iteration has removed at least one
\* face and there are at most Len(mesh) iterations.
C17_SplitTerminates ==
    (pc \in {"split", "split_done"})
        => /\ iterations + Len(remaining) <= Len(mesh)
           /\ iterations <= Len(mesh)

\* A mesh of MaxFaces faces that are all alone takes MaxFaces iterations.
C17_Witness ==
    /\ pc = "split_done"
    /\ Len(mesh) = MaxFaces
    /\ iterations = MaxFaces
    /\ Len(remaining) = 0

(***************************************************************************)
(* Segment.collinear                                                       *)
(***************************************************************************)
\* v is farther from the line through the segment g than any point that
\* deviates from it by less than the tolerance on every axis: its squared
\* distance from the line is at least 3 * EPSILON^2.
FarFromLine(v, g) ==
    LET c == Cross(VSubtract(v, g.a), direction(g))
    IN  Ge(lengthSquared(c), Mul(R(3 * EPSILON * EPSILON), lengthSquared(direction(g))))

\* C15: collinear(other) returns null when an end point of other is off the
\* line through this segment (whatever the direction of the line and of the
\* deviation), and when both end points are on the line it returns t1 and t2
\* with other.a = this.a + t1 * direction and other.b = this.a + t2 *
\* direction.
C15_Collinear ==
    pc = "collinear_done" =>
        /\ (FarFromLine(segH.a, segG) \/ FarFromLine(segH.b, segG)) => coll = Null
        /\ (OnLine(segH.a, segG.a, segG.b) /\ OnLine(segH.b, segG.a, segG.b)) =>
              /\ coll # Null
              /\ segH.a = VAdd(segG.a, VScale(direction(segG), coll.t1))
              /\ segH.b = VAdd(segG.a, VScale(direction(segG), coll.t2))

(***************************************************************************)
(* Vector.equals                                                           *)
(***************************************************************************)
\* C18: v.equals(w) is true exactly when v and w differ by strictly less
\* than the tolerance on each of the three axes; it is reflexive and
\* symmetric.
C18_VectorEquals ==
    pc = "vec_equals_done" =>
        /\ vecEq.fwd = EpsEqual(vecV, vecW)
        /\ vecEq.bwd = vecEq.fwd
        /\ vecEq.self = TRUE

\* Two vectors a whole tolerance apart on the x axis and half a tolerance
\* apart on the y axis are found unequal.
C18_Witness ==
    /\ pc = "vec_equals_done"
    /\ Abs(vecV.x[1] - vecW.x[1]) = EPSILON
    /\ 2 * Abs(vecV.y[1] - vecW.y[1]) = EPSILON
    /\ vecV.z = vecW.z
    /\ vecEq.fwd = FALSE

(***************************************************************************)
(* Polygon boolean operations                                              *)
(***************************************************************************)
\* The plane through the first three vertices of p holds every vertex of q.
InPlaneOf(p, q) ==
    LET n == Cross(VSubtract(p[2], p[1]), VSubtract(p[3], p[1]))
    IN  \A i \in 1..Len(q) : Dot(n, VSubtract(q[i], p[1])) = R(0)

\* The planes of p and q are parallel.
Parallel(p, q) ==
    Cross(Cross(VSubtract(p[2], p[1]), VSubtract(p[3], p[1])),
          Cross(VSubtract(q[2], q[1]), VSubtract(q[3], q[1]))) = Vec(0, 0, 0)

RECURSIVE NumHoles(_)
NumHoles(clip) ==
    IF Len(clip) = 0 THEN 0 ELSE (Len(Head(clip)) - 1) + NumHoles(Tail(clip))

OneHole ==
    /\ pc = "oper_done"
    /\ InPlaneOf(polyThis, polyOther)
    /\ Len(clipped) = 1
    /\ Len(clipped[1]) = 2

\* The vertices of a closed ring of the library, without the closing one.
RingPoints(coords) ==
    [i \in 1..(Len(coords) - 1) |-> [x |-> R(coords[i][1]), y |-> R(coords[i][2])]]

\* The vertices of the exterior and of the hole.
RingVertices == Range(RingPoints(clipped[1][1])) \cup Range(RingPoints(clipped[1][2]))

\* The break points S1, S2, C1, C2 of the splitting.
Breaks ==
    LET bp == BreakPoints(RingPoints(clipped[1][1]), RingPoints(clipped[1][2]))
    IN  {bp.S1, bp.S2, bp.C1, bp.C2}

\* A polygon of the result in the two coordinates the library works on.
Projected(poly) ==
    LET dims == Dims(Axis(Normal(polyThis)))
    IN  [i \in 1..Len(poly) |-> [x |-> poly[i][dims[1]], y |-> poly[i][dims[2]]]]

C20_BreakPointsStraddle ==
    OneHole =>
        LET bp == BreakPoints(RingPoints(clipped[1][1]), RingPoints(clipped[1][2]))
        IN  /\ Le(bp.S1.x, bp.C1.x)
            /\ Ge(bp.S2.x, bp.C2.x)

(***************************************************************************)
(* Triangle.intersect                                                      *)
(***************************************************************************)
\* C14: for any Triangle T, T.intersect(T) returns a Triangle with the
\* vertex set of T, when the clipping library returns the ring of T for
\* the intersection of that ring with itself.
C14_SelfIntersect ==
    (pc = "self_done") =>
        /\ "returns" \in DOMAIN triIsect
        /\ triIsect.class = "Triangle"
        /\ Len(triIsect.returns) = 3
        /\ Range(triIsect.returns) = Range(tri)
        /\ equals(triIsect.returns, tri)

\* Array.prototype.sort((a, b) => a - b) of an array of two numbers.
sortNumeric(interval) ==
    IF Lt(interval[2], interval[1]) THEN <<interval[2], interval[1]>> ELSE interval

\* The intersection of tri with other is computed in the branch of
\* Triangle.intersect for triangles in two planes that meet.
InLineBranch ==
    /\ pc = "intersect_done"
    /\ ~InOnePlane(tri, other)
    /\ ~OneSide(SignedDistances(tri, PlaneNormal(other),
                                Neg(Dot(PlaneNormal(other), other[1]))))
    /\ ~OneSide(SignedDistances(other, PlaneNormal(tri),
                                Neg(Dot(PlaneNormal(tri), tri[1]))))

\* The interval of t on the line in which the planes of tri and other meet,
\* in ascending order.
Ascending(t, o) ==
    LET line == IntersectionLine(tri, other)
    IN  sortNumeric(Interval(t, SignedDistances(t, PlaneNormal(o),
                                                Neg(Dot(PlaneNormal(o), o[1]))),
                             line.O, line.D))

\* The point of the line at the parameter t.
OnLineAt(t) ==
    LET line == IntersectionLine(tri, other)
    IN  VAdd(line.O, VScale(line.D, t))

\* C19: for triangles in two planes that meet, the overlap is [max of the
\* lower ends, min of the upper ends] of the two intervals in ascending
\* numeric order; the result is the Segment between its ends when it is
\* longer than eps, the point at its lower end when its length is within
\* eps of zero, and null when it is shorter than -eps.
C19_IntervalOverlap ==
    InLineBranch =>
        LET lower == MathMax(Ascending(tri, other)[1], Ascending(other, tri)[1])
            upper == MathMin(Ascending(tri, other)[2], Ascending(other, tri)[2])
        IN  /\ Gt(Sub(upper, lower), Eps) =>
                  /\ triIsect.class = "Segment"
                  /\ triIsect.returns = Segment(OnLineAt(lower), OnLineAt(upper))
            /\ Lt(MathAbs(Sub(upper, lower)), Eps) =>
                  /\ triIsect.class = "Vector"
                  /\ triIsect.returns = OnLineAt(lower)
            /\ Lt(Sub(upper, lower), Neg(Eps)) => triIsect.class = "null"

(***************************************************************************)
(* Mesh.split: maximal sub-meshes                                          *)
(***************************************************************************)
\* The connected components of the faces of the mesh m under Linked.
Components(m) == {ReachIn({f}, Range(m)) : f \in Range(m)}

\* C28: the sub-meshes split() returns are maximal: no face of one sub-mesh
\* has a vertex epsilon-equal to a vertex of a face of another sub-mesh, and
\* there are as many sub-meshes as the relation `two faces have a pair of
\* epsilon-equal vertices` has connected components among the faces.
C28_SubmeshesMaximal ==
    pc = "split_done" =>
        /\ \A i, j \in 1..Len(result) :
              i # j => \A f \in Range(result[i]) : \A g \in Range(result[j]) : ~Linked(f, g)
        /\ Len(result) = Cardinality(Components(mesh))

\* split() returned two sub-meshes, one of them of two faces.
C28_Witness ==
    /\ pc = "split_done"
    /\ Len(result) = 2
    /\ \E i \in 1..Len(result) : Cardinality(Range(result[i])) = 2

(***************************************************************************)
(* Triangle.cut is total                                                   *)
(***************************************************************************)
\* Every vertex of the polygon p has finite coordinates.
FinitePolygon(p) == \A i \in 1..Len(p) : VFinite(p[i])

\* C27: for every triangle and every plane with a normal that is not zero,
\* cut returns an object whose above and below are polygons with finite
\* coordinates: it does not return undefined and does not raise, also when
\* the signed distance of a vertex is exactly +eps or exactly -eps.
C27_CutTotal ==
    pc = "cut_done" =>
        /\ cutRes # Null
        /\ cutRes # TypeError
        /\ FinitePolygon(cutRes.above)
        /\ FinitePolygon(cutRes.below)

\* C26: when Triangle.intersect reaches the branch of the intersection
\* line, the planes of the two triangles meet in a line: N1 x N2 is not the
\* zero vector and det[N1 N2 D] is not 0, so that D and O are finite, also
\* for signed distances of exactly +eps or -eps.
C26_PlanesMeet ==
    InLineBranch =>
        /\ Cross(PlaneNormal(tri), PlaneNormal(other)) # Vec(0, 0, 0)
        /\ determinant(fromColumns(PlaneNormal(tri), PlaneNormal(other),
                                   IntersectionLine(tri, other).D)) # R(0)
        /\ VFinite(IntersectionLine(tri, other).D)
        /\ VFinite(IntersectionLine(tri, other).O)

(***************************************************************************)
(* Segment.intersect: crossing lines                                       *)
(***************************************************************************)
\* The lines through g and through h meet in exactly one point: they are
\* not parallel and lie in one plane.
MeetInOnePoint(g, h) ==
    /\ Cross(direction(g), direction(h)) # Vec(0, 0, 0)
    /\ determinant(fromColumns(VSubtract(h.a, g.a), direction(g), direction(h))) = R(0)

\* The parameter along g (0 at g.a, 1 at g.b) of the point in which the
\* line through g meets the line through h.
ParameterOn(g, h) ==
    Div(determinant(fromColumns(VSubtract(h.a, g.a), direction(h),
                                Cross(direction(g), direction(h)))),
        lengthSquared(Cross(direction(g), direction(h))))

InUnit(t) == Le(R(0), t) /\ Le(t, R(1))

\* C22: when the lines through the two segments meet in exactly one point,
\* intersect returns that point if its parameter is in [0, 1] along both
\* segments and null otherwise, whatever the directions of the segments.
C22_PointOnBothSegments ==
    (pc = "intersect_done" /\ MeetInOnePoint(segG, segH)) =>
        IF InUnit(ParameterOn(segG, segH)) /\ InUnit(ParameterOn(segH, segG))
        THEN isect = VAdd(segG.a, VScale(direction(segG), ParameterOn(segG, segH)))
        ELSE isect = Null

(***************************************************************************)
(* Segment.intersect: commutativity                                        *)
(***************************************************************************)
\* Two results of intersect are the same: both null, or points that are
\* equal (Vector.equals), or segments that are equal (Segment.equals, in
\* either orientation).
SameIntersection(r1, r2) ==
    \/ r1 = Null /\ r2 = Null
    \/ /\ IsVector(r1) /\ IsVector(r2)
       /\ VEquals(r1, r2)
    \/ /\ IsSegment(r1) /\ IsSegment(r2)
       /\ \/ VEquals(r1.a, r2.a) /\ VEquals(r1.b, r2.b)
          \/ VEquals(r1.a, r2.b) /\ VEquals(r1.b, r2.a)

\* C30: g.intersect(h) and h.intersect(g) are both null, or equal points,
\* or equal segments.
C30_IntersectCommutes ==
    pc = "intersect_done" => SameIntersection(isect, intersect(segH, segG))

(***************************************************************************)
(* Hole splitting: edges of the result                                     *)
(***************************************************************************)
\* No two cyclically consecutive vertices of the ring are equal within
\* epsilon.
NoZeroLengthEdge(ring) ==
    \A i \in 1..Len(ring) : ~eq(ring[i], ring[(i % Len(ring)) + 1])

\* C21: neither of the two polygons produced by hole splitting has two
\* cyclically consecutive vertices that are equal within epsilon in the
\* projected frame, also when a break point is a vertex of a ring.
C21_NoZeroLengthEdge ==
    (OneHole /\ "returns" \in DOMAIN operRes) =>
        \A k \in 1..Len(operRes.returns) :
            NoZeroLengthEdge(Projected(operRes.returns[k]))

(***************************************************************************)
(* Boolean operations: several polygons, one with a hole                   *)
(***************************************************************************)
\* The library has returned several polygons of which exactly one has a
\* hole, for operands in one plane.
SeveralOneHole ==
    /\ pc = "oper_done"
    /\ InPlaneOf(polyThis, polyOther)
    /\ Len(clipped) >= 2
    /\ NumHoles(clipped) = 1

\* The vertices of the polygons of the result, in the two coordinates the
\* library works on.
Returned2D == [i \in 1..Len(operRes.returns) |-> Range(Projected(operRes.returns[i]))]

\* C29: when the library returns several polygons of which one has a hole,
\* every exterior ring has all its vertices in the result, two polygons of
\* the result share out the vertices of the hole and of its own exterior,
\* and no polygon of the result is the hole ring itself.
C29_NoRingLost ==
    SeveralOneHole =>
        /\ "returns" \in DOMAIN operRes
        /\ \A k \in 1..Len(clipped) :
              /\ \A v \in Range(RingPoints(clipped[k][1])) :
                    \E i \in 1..Len(operRes.returns) : v \in Returned2D[i]
              /\ Len(clipped[k]) = 2 =>
                    /\ \E i, j \in 1..Len(operRes.returns) :
                          /\ i # j
                          /\ Range(RingPoints(clipped[k][2]))
                                \subseteq Returned2D[i] \cup Returned2D[j]
                          /\ Returned2D[i] \cap Range(RingPoints(clipped[k][1])) # {}
                          /\ Returned2D[j] \cap Range(RingPoints(clipped[k][1])) # {}
                    /\ \A i \in 1..Len(operRes.returns) :
                          Returned2D[i] # Range(RingPoints(clipped[k][2]))

(***************************************************************************)
(* Polygon.equals                                                          *)
(***************************************************************************)
\* that has the vertices of this in the same order, from some vertex of
\* this on, each equal within the tolerance to its counterpart.
IsRotationOf(this, that) ==
    /\ Len(this) = Len(that)
    /\ \E k \in 1..Len(this) : EveryEquals(SliceConcat(this, k), that)

\* C23: equals is true whenever other has the vertex sequence of this up to
\* a cyclic rotation, also when two vertices of the polygon are equal within
\* the tolerance, and false when the numbers of vertices differ.
C23_EqualsUpToRotation ==
    pc = "equals_done" =>
        /\ (Len(polyThis) > 0 /\ IsRotationOf(polyThis, polyOther)) => polyEq
        /\ Len(polyThis) # Len(polyOther) => ~polyEq

(***************************************************************************)
(* Polygon.contains                                                        *)
(***************************************************************************)
\* A vertex in the two coordinates other than the axis on which the normal
\* of the polygon is largest.
InFrame(this, v) ==
    [x |-> v[Dims(Axis(Normal(this)))[1]], y |-> v[Dims(Axis(Normal(this)))[2]]]

\* p lies on the edge from a to b (in two coordinates).
OnEdge(p, a, b) ==
    /\ Sub(Mul(Sub(b.x, a.x), Sub(p.y, a.y)), Mul(Sub(b.y, a.y), Sub(p.x, a.x))) = R(0)
    /\ Le(Add(Mul(Sub(p.x, a.x), Sub(p.x, b.x)), Mul(Sub(p.y, a.y), Sub(p.y, b.y))), R(0))

\* The point lies on an edge of the polygon.
OnBoundary(this, p) ==
    \E i \in 1..Len(this) :
        OnEdge(InFrame(this, p), InFrame(this, this[i]),
               InFrame(this, this[(i % Len(this)) + 1]))

\* The half-line from p in the direction of the first coordinate crosses
\* the edge from a to b.
RayCrosses(p, a, b) ==
    /\ Gt(a.y, p.y) # Gt(b.y, p.y)
    /\ Lt(p.x, Add(a.x, Div(Mul(Sub(p.y, a.y), Sub(b.x, a.x)), Sub(b.y, a.y))))

\* The number of edges of the polygon the half-line from p crosses.
Crossings(this, p) ==
    Cardinality({ i \in 1..Len(this) :
                    RayCrosses(InFrame(this, p), InFrame(this, this[i]),
                               InFrame(this, this[(i % Len(this)) + 1])) })

StrictlyInside(this, p) == ~OnBoundary(this, p) /\ Crossings(this, p) % 2 = 1

StrictlyOutside(this, p) == ~OnBoundary(this, p) /\ Crossings(this, p) % 2 = 0

\* C24: for a planar simple polygon in any plane, whichever axis its normal
\* is largest on, contains is true for a point of the plane strictly inside
\* the polygon and false for a point of the plane strictly outside.
C24_ContainsInsideOutside ==
    pc = "contains_done" =>
        /\ StrictlyInside(polyThis, queryPoint) => contained
        /\ StrictlyOutside(polyThis, queryPoint) => ~contained

\* C25: contains is true for every point on an edge of the polygon,
\* whichever edge it is.
C25_ContainsOnEdge ==
    (pc = "contains_done" /\ OnBoundary(polyThis, queryPoint)) => contained

====
